---- MODULE Spec2Model ----
(***************************************************************************)
(* Verification model of the timescale-gravity backtesting engines.        *)
(*                                                                         *)
(* Prices, points and rupees are integers (one unit = one point = one      *)
(* rupee).  A timestamp is a record [date, time]: a calendar date and a    *)
(* time-of-day slot.  NaN is the not-a-number marker of an indicator       *)
(* column, None the value of a variable that holds no number.              *)
(*                                                                         *)
(* The class-based engine (BacktestRunner) reads its data frame one row    *)
(* at a time: iteration i reads df.iloc[i], the high/low of df.iloc[i-1]   *)
(* (scalp_signal) and the open/timestamp of df.iloc[i+1] (entry,           *)
(* is_last_bar_of_day).  The model keeps the cells a later iteration reads *)
(* again (prev, nxt) and draws the remaining cells of a row when the loop  *)
(* first reads them; the indicator columns ema_fast, ema_slow and atr are  *)
(* columns of the frame the loop is handed.                                *)
(*                                                                         *)
(* The specifications share the variables:                                 *)
(*   Spec          one BacktestRunner: construction, one scan of           *)
(*                 _run_backtest_on_df and the result of execute;          *)
(*   SpecResolver  one call of decide_exit_this_bar on its own;            *)
(*   SpecSignal    one call of scalp_signal on its own;                    *)
(*   SpecGlobals   two requests served by run_backtest_from_config of      *)
(*                 backtest_tsdb, whose engine reads module-level names;   *)
(*   SpecCadence   one run of random_scalp or random_scalp_live on a      *)
(*                 frame read from the database;                           *)
(*   SpecHanded    _simulate_symbol on a frame handed in by its caller;    *)
(*   SpecEngines   Spec or SpecCadence;                                    *)
(*   SpecIndicators  one call of compute_indicators on its own;            *)
(*   SpecDailyStop Spec, and the scan of a longer frame under a loss cap   *)
(*                 that takes two losing trades to reach;                  *)
(*   SpecRunner    one PermutationRunner of tester_app, its run-loop       *)
(*                 threads and workers, and one thread calling it;         *)
(*   SpecRunnerRace  the same with two threads calling it;                 *)
(*   SpecRunnerFair  one caller that starts and pauses, under fairness;    *)
(*   SpecOneLoss   the scan of a longer frame under a loss cap that one   *)
(*                 losing trade reaches;                                   *)
(*   SpecConfirm   two BacktestRunners that differ in                     *)
(*                 confirm_trend_at_entry, their loops on the same frame; *)
(*   SpecCopies    a BacktestRunner and the backtest_tsdb module given    *)
(*                 the same config, their loops on the same frame;         *)
(*   SpecExecute   BacktestRunner.execute over the symbols of its run,    *)
(*                 one or both legs of an option pair.                     *)
(* The variables a specification does not use keep their initial value.    *)
(***************************************************************************)
EXTENDS Integers, Sequences, FiniteSets, TLC

(* ---------- bounds of the model ---------- *)
MaxBars == 6
MaxPrice == 2
MaxCadenceBars == 5

NaN == -1
None == -1000
NoRow == [none |-> TRUE]
NoSide == "None"

Prices == 0..MaxPrice
Dates == {0, 1}
Slots == {0, 1, 2}
LastSlot == 2
Sides == {"LONG", "SHORT"}
Paths == {"color", "bull", "bear", "worst"}
BullPath == <<"open", "low", "high", "close">>
BearPath == <<"open", "high", "low", "close">>
WorstPath == <<"worst">>

(* ---------- helpers of BacktestRunner ---------- *)

in_session_open_end(c, ts) ==
    \E k \in 1..Len(c.session_windows) :
        /\ c.session_windows[k][1] <= ts.time
        /\ ts.time < c.session_windows[k][2]

in_session(c, ts) ==
    \E k \in 1..Len(c.session_windows) :
        /\ c.session_windows[k][1] <= ts.time
        /\ ts.time <= c.session_windows[k][2]

trend_up(r) == r.ema_fast > r.ema_slow

trend_down_unchecked(r) == TRUE

trend_down(r) == r.ema_fast < r.ema_slow

atr_ok(c, r) == r.atr # NaN /\ r.atr >= c.atr_min_points

is_last_bar_of_day(r, nxt) ==
    IF nxt = NoRow THEN TRUE ELSE nxt.ts.date # r.ts.date

past_square_off_time(c, ts) == ts.time >= c.square_off_time

scalp_signal_breakout_only(c, i, pv, curr) ==
    IF i < 1 THEN NoSide
    ELSE IF ~in_session(c, curr.ts) \/ ~atr_ok(c, curr) THEN NoSide
    ELSE IF curr.high > pv.high
            /\ c.trade_direction \in {"both", "long_only"} THEN "LONG"
    ELSE IF curr.low < pv.low
            /\ c.trade_direction \in {"both", "short_only"} THEN "SHORT"
    ELSE NoSide

scalp_signal(c, i, pv, curr) ==
    IF i < 1 THEN NoSide
    ELSE IF ~in_session(c, curr.ts) \/ ~atr_ok(c, curr) THEN NoSide
    ELSE IF curr.high > pv.high /\ trend_up(curr)
            /\ c.trade_direction \in {"both", "long_only"} THEN "LONG"
    ELSE IF curr.low < pv.low /\ trend_down(curr)
            /\ c.trade_direction \in {"both", "short_only"} THEN "SHORT"
    ELSE NoSide

bar_path_tuple_strict(c, bar) ==
    IF c.exit_bar_path = "bull" THEN BullPath
    ELSE IF c.exit_bar_path = "bear" THEN BearPath
    ELSE IF c.exit_bar_path = "color"
         THEN IF bar.open # NaN /\ bar.close # NaN /\ bar.close > bar.open
              THEN BullPath ELSE BearPath
    ELSE WorstPath

bar_path_tuple(c, bar) ==
    IF c.exit_bar_path = "bull" THEN BullPath
    ELSE IF c.exit_bar_path = "bear" THEN BearPath
    ELSE IF c.exit_bar_path = "color"
         THEN IF bar.open # NaN /\ bar.close # NaN /\ bar.close >= bar.open
              THEN BullPath ELSE BearPath
    ELSE WorstPath

NoExit == [exited |-> FALSE, exit_px |-> None, reason |-> "None"]
ExitAt(px, why) == [exited |-> TRUE, exit_px |-> px, reason |-> why]

decide_exit_target_first(c, position, bar, tp, sl) ==
    LET hit_tp == IF position = "LONG" THEN bar.high >= tp ELSE bar.low <= tp
        hit_sl == IF position = "LONG" THEN bar.low <= sl ELSE bar.high >= sl
    IN  IF hit_tp THEN ExitAt(tp, "Target Hit")
        ELSE IF hit_sl THEN ExitAt(sl, "Stoploss Hit")
        ELSE NoExit

decide_exit_this_bar(c, position, bar, tp, sl) ==
    LET high == bar.high
        low == bar.low
        hit_tp == IF position = "LONG" THEN high >= tp ELSE low <= tp
        hit_sl == IF position = "LONG" THEN low <= sl ELSE high >= sl
        path == bar_path_tuple(c, bar)
        fallback == IF hit_sl THEN ExitAt(sl, "Stoploss Hit")
                    ELSE ExitAt(tp, "Target Hit")
    IN  IF ~hit_tp /\ ~hit_sl THEN NoExit
        ELSE IF path = WorstPath THEN fallback
        ELSE IF position = "LONG" THEN
            IF path = BullPath
            THEN IF low <= sl THEN ExitAt(sl, "Stoploss Hit")
                 ELSE IF high >= tp THEN ExitAt(tp, "Target Hit")
                 ELSE fallback
            ELSE IF high >= tp THEN ExitAt(tp, "Target Hit")
                 ELSE IF low <= sl THEN ExitAt(sl, "Stoploss Hit")
                 ELSE fallback
        ELSE
            IF path = BullPath
            THEN IF low <= tp THEN ExitAt(tp, "Target Hit")
                 ELSE IF high >= sl THEN ExitAt(sl, "Stoploss Hit")
                 ELSE fallback
            ELSE IF high >= sl THEN ExitAt(sl, "Stoploss Hit")
                 ELSE IF low <= tp THEN ExitAt(tp, "Target Hit")
                 ELSE fallback

(* ---------- the frame read by the loop ---------- *)

Timestamps == [date : Dates, time : Slots]

Later(t, u) == t.date > u.date \/ (t.date = u.date /\ t.time > u.time)

(* The cells of a row the loop has not read yet: every candle with the     *)
(* given open and timestamp (low <= open, close <= high).                  *)
Rows(head) ==
    { [open |-> head.open, high |-> h, low |-> l, close |-> cl, ts |-> head.ts] :
        <<h, l, cl>> \in { x \in Prices \X Prices \X Prices :
                            /\ x[2] <= head.open /\ head.open <= x[1]
                            /\ x[2] <= x[3] /\ x[3] <= x[1] } }

(* The indicator columns of a row, as compute_indicators left them.        *)
EmaVals == {0, 1}
AtrVals == {NaN, 0, 1}
Indicators == [ema_fast : EmaVals, ema_slow : EmaVals, atr : AtrVals]

WithIndicators(r, ind) ==
    [open |-> r.open, high |-> r.high, low |-> r.low, close |-> r.close, ts |-> r.ts,
     ema_fast |-> ind.ema_fast, ema_slow |-> ind.ema_slow, atr |-> ind.atr]

(* The cells of a row that scalp_signal reads again as prev.               *)
Cells(r) == [high |-> r.high, low |-> r.low]

HighLows(head) == { Cells(r) : r \in Rows(head) }

(* ---------- state of one BacktestRunner ---------- *)
VARIABLES
    cfg,                \* the parameters BacktestRunner.__init__ stored on self
    pc,                 \* "scan" inside the while loop, "done" after it
    i,                  \* loop index
    prev,               \* high and low of df.iloc[i - 1], as scalp_signal(i) reads them
    nxt,                \* open and timestamp of df.iloc[i], NoRow when i >= len(df)
    in_position, side, entry_price, entry_time, tp_level, sl_level,
    results,            \* the ledger
    equity,
    daily_pnl,
    loss_stopped_days,
    sig_idx, entry_idx, \* history: index of the signal bar and of the entry bar
    entry_bar,          \* history: open and timestamp of df.iloc[entry_idx]
    blocked,            \* history: a flat iteration found its date stopped
    stop_idx,           \* history: date -> index of the bar whose exit stopped the date
    opened,             \* history: number of positions opened
    last,               \* history: what the last iteration read while in position
    call,               \* decide_exit_this_bar: self and the arguments of one call
    ret,                \* decide_exit_this_bar: what that call returned
    module_globals,     \* backtest_tsdb: the module-level names of the process
    invocations,        \* backtest_tsdb: request -> position and locals of its call
    overlapped,         \* history: a call started while another was running
    output,             \* BacktestRunner.execute: the dict it returned
    sim,                \* RandomScalpRunner._simulate_symbol: its locals
    runner              \* PermutationRunner: its fields, its threads and its callers

vars == <<cfg, pc, i, prev, nxt, in_position, side, entry_price, entry_time,
          tp_level, sl_level, results, equity, daily_pnl, loss_stopped_days,
          sig_idx, entry_idx, entry_bar, blocked, stop_idx, opened, last,
          call, ret, module_globals, invocations, overlapped, output, sim, runner>>

posvars == <<in_position, side, entry_price, entry_time, tp_level, sl_level,
             sig_idx, entry_idx, entry_bar>>

ledgervars == <<results, equity, daily_pnl, loss_stopped_days, stop_idx>>

scanvars == <<cfg, pc, i, prev, nxt, posvars, ledgervars, blocked, opened, last, output>>

resolvervars == <<call, ret>>

globalvars == <<module_globals, invocations, overlapped>>

(* ---------- configurations ---------- *)
BaseConfig ==
    [ target_points |-> 1,
      stoploss_points |-> 1,
      atr_min_points |-> 1,
      daily_loss_cap |-> -1,
      exit_bar_path |-> "color",
      trade_direction |-> "both",
      confirm_trend_at_entry |-> TRUE,
      enable_eod_square_off |-> TRUE,
      square_off_time |-> LastSlot,
      session_windows |-> << <<0, LastSlot - 1>> >>,
      starting_capital |-> 0,
      qty_per_point |-> 1,
      brokerage_per_trade |-> 0,
      slippage_points |-> 0 ]

(* The base configuration, every configuration that differs from it in   *)
(* one parameter, and one with costs, a loss cap to match them and a       *)
(* starting capital.                                                       *)
Configs ==
    {BaseConfig}
    \cup { [BaseConfig EXCEPT !.exit_bar_path = p] : p \in Paths }
    \cup { [BaseConfig EXCEPT !.trade_direction = d] : d \in {"long_only", "short_only"} }
    \cup { [BaseConfig EXCEPT !.confirm_trend_at_entry = FALSE],
           [BaseConfig EXCEPT !.enable_eod_square_off = FALSE],
           [BaseConfig EXCEPT !.target_points = 2],
           [BaseConfig EXCEPT !.daily_loss_cap = -3],
           [BaseConfig EXCEPT !.qty_per_point = 2, !.brokerage_per_trade = 1,
                              !.slippage_points = 1, !.daily_loss_cap = -20,
                              !.starting_capital = 100] }

(* A configuration whose loss cap takes two losing trades of one date to  *)
(* reach; its frames run to MaxStopBars rows over the four slots of        *)
(* StopSlots, so that a date can hold two exits.                           *)
MaxStopBars == 7

StopSlots == {0, 1, 2, 3}

CapConfigs ==
    { [BaseConfig EXCEPT !.daily_loss_cap = -2, !.square_off_time = 3,
                         !.session_windows = << <<0, 2>> >>] }

(* A configuration on the same frames whose loss cap one losing trade     *)
(* reaches.                                                                *)
OneLossConfigs ==
    { [BaseConfig EXCEPT !.square_off_time = 3, !.session_windows = << <<0, 2>> >>] }

LongFrameConfigs == CapConfigs \cup OneLossConfigs

FrameBars(c) == IF c \in LongFrameConfigs THEN MaxStopBars ELSE MaxBars

FrameStamps(c) ==
    IF c \in LongFrameConfigs THEN [date : Dates, time : StopSlots] ELSE Timestamps

(* Open and timestamp of the row at index idx, which follows a row stamped *)
(* after; NoRow when the frame ends before idx.                            *)
Heads(idx, after) ==
    IF idx >= FrameBars(cfg) THEN {NoRow}
    ELSE {NoRow} \cup { [open |-> o, ts |-> t] :
                          <<o, t>> \in { x \in Prices \X FrameStamps(cfg) : Later(x[2], after) } }

(* ---------- summaries of a ledger ---------- *)

Abs(x) == IF x < 0 THEN -x ELSE x

Max(x, y) == IF x >= y THEN x ELSE y

RECURSIVE column_sum(_, _)
column_sum(trades, col) ==
    IF trades = <<>> THEN 0
    ELSE trades[1][col] + column_sum(Tail(trades), col)

EmptyDict == << >>

Winners(trades) == SelectSeq(trades, LAMBDA t : t.pnl_rupees > 0)

Losers(trades) == SelectSeq(trades, LAMBDA t : t.pnl_rupees < 0)

(* trades["cum"], trades["peak"], trades["dd"] at row k (1-based) *)
cum(trades, k) == column_sum(SubSeq(trades, 1, k), "pnl_rupees")

peak(trades, k) ==
    LET cums == { cum(trades, j) : j \in 1..k }
    IN  CHOOSE m \in cums : \A c \in cums : m >= c

dd(trades, k) == cum(trades, k) - peak(trades, k)

max_dd_below_start(trades) ==
    CHOOSE m \in { cum(trades, k) - Max(0, peak(trades, k)) : k \in 1..Len(trades) } :
        \A k \in 1..Len(trades) : m <= cum(trades, k) - Max(0, peak(trades, k))

(* float(trades["dd"].min()) *)
max_dd(trades) ==
    LET dds == { dd(trades, k) : k \in 1..Len(trades) }
    IN  CHOOSE m \in dds : \A d \in dds : m <= d

(* trades["exit_reason"].value_counts().to_dict() *)
exit_reason_counts(trades) ==
    [r \in { trades[k].exit_reason : k \in 1..Len(trades) } |->
        Cardinality({ k \in 1..Len(trades) : trades[k].exit_reason = r })]

summarize_trades_before_costs(c, trades) ==
    IF trades = <<>> THEN EmptyDict
    ELSE LET total == Len(trades)
             wins == Len(Winners(trades))
             losses == Len(Losers(trades))
             flats == total - wins - losses
             net_pnl == column_sum(trades, "pnl_rupees")
         IN  [total_trades |-> total, wins |-> wins, losses |-> losses, flats |-> flats,
              gross_rupees |-> column_sum(trades, "gross_rupees"),
              costs_rupees |-> column_sum(trades, "costs_rupees"),
              net_rupees |-> net_pnl,
              final_equity |-> c.starting_capital + column_sum(trades, "gross_rupees"),
              max_drawdown |-> max_dd(trades),
              exit_reason_counts |-> exit_reason_counts(trades)]

(* BacktestRunner.summarize_trades; the ratio fields (winrate_percent,    *)
(* roi_percent, avg_win, avg_loss, risk_reward) are left out.             *)
runner_summarize_trades(c, trades) ==
    IF trades = <<>> THEN EmptyDict
    ELSE LET total == Len(trades)
             wins == Len(Winners(trades))
             losses == Len(Losers(trades))
             flats == total - wins - losses
             net_pnl == column_sum(trades, "pnl_rupees")
         IN  [total_trades |-> total, wins |-> wins, losses |-> losses, flats |-> flats,
              gross_rupees |-> column_sum(trades, "gross_rupees"),
              costs_rupees |-> column_sum(trades, "costs_rupees"),
              net_rupees |-> net_pnl,
              final_equity |-> c.starting_capital + net_pnl,
              max_drawdown |-> max_dd(trades),
              exit_reason_counts |-> exit_reason_counts(trades)]

(* summarize_trades of random_scalp and random_scalp_live, the ratio      *)
(* fields left out; flats are counted, not derived.                       *)
scalp_summarize_trades(trades, starting_capital) ==
    IF trades = <<>> THEN EmptyDict
    ELSE LET total == Len(trades)
             wins == Len(Winners(trades))
             losses == Len(Losers(trades))
             flats == Len(SelectSeq(trades, LAMBDA t : t.pnl_rupees = 0))
             net_pnl == column_sum(trades, "pnl_rupees")
         IN  [total_trades |-> total, wins |-> wins, losses |-> losses, flats |-> flats,
              gross_rupees |-> column_sum(trades, "gross_rupees"),
              costs_rupees |-> column_sum(trades, "costs_rupees"),
              net_rupees |-> net_pnl,
              final_equity |-> starting_capital + net_pnl,
              max_drawdown |-> max_dd(trades),
              exit_reason_counts |-> exit_reason_counts(trades)]

RECURSIVE SortedSeq(_)
SortedSeq(S) ==
    IF S = {} THEN << >>
    ELSE LET m == CHOOSE x \in S : \A y \in S : x <= y
         IN  <<m>> \o SortedSeq(S \ {m})

(* One entry of the breakdown: the trades whose exit date is d.           *)
day_entry(d, group) ==
    [date |-> d,
     net_pnl |-> column_sum(group, "pnl_rupees"),
     profit |-> column_sum(Winners(group), "pnl_rupees"),
     loss |-> column_sum(Losers(group), "pnl_rupees"),
     wins |-> Len(Winners(group)),
     losses |-> Len(Losers(group)),
     trades |-> Len(group)]

(* daily_breakdown: exit_time is already in Asia/Kolkata (the frame index *)
(* was converted when read), so exit_date is the date of the exit bar.    *)
daily_breakdown(trades) ==
    LET exit_dates == SortedSeq({ trades[k].exit_time.date : k \in 1..Len(trades) })
    IN  [n \in 1..Len(exit_dates) |->
            day_entry(exit_dates[n],
                      SelectSeq(trades, LAMBDA t : t.exit_time.date = exit_dates[n]))]

scalp_daily_breakdown_by_entry(trades) ==
    LET entry_dates == SortedSeq({ trades[k].entry_time \div 2 : k \in 1..Len(trades) })
    IN  [n \in 1..Len(entry_dates) |->
            day_entry(entry_dates[n],
                      SelectSeq(trades, LAMBDA t : t.entry_time \div 2 = entry_dates[n]))]

(* daily_breakdown of the cadence engines; the rows are stamped with      *)
(* numbers, and two consecutive stamps make one date.                     *)
scalp_daily_breakdown(trades) ==
    LET exit_dates == SortedSeq({ trades[k].exit_time \div 2 : k \in 1..Len(trades) })
    IN  [n \in 1..Len(exit_dates) |->
            day_entry(exit_dates[n],
                      SelectSeq(trades, LAMBDA t : t.exit_time \div 2 = exit_dates[n]))]

(* trades["symbol"] = sym *)
tag_symbol(trades, sym) ==
    [k \in 1..Len(trades) |->
        [f \in DOMAIN trades[k] \cup {"symbol"} |->
            IF f = "symbol" THEN sym ELSE trades[k][f]]]

(* BacktestRunner.execute for one symbol, whose scan returned trades; an  *)
(* absent summary (None) is NoRow.                                        *)
execute_summary_of_nothing(c, trades) ==
    [trades |-> tag_symbol(trades, "NIFTY"),
     summary |-> runner_summarize_trades(c, trades),
     daily_stats |-> daily_breakdown(trades), output_csv |-> NoRow]

execute(c, trades) ==
    IF trades = <<>>
    THEN [trades |-> << >>, summary |-> NoRow, daily_stats |-> << >>,
          output_csv |-> NoRow, message |-> "No trades generated for any symbol."]
    ELSE [trades |-> tag_symbol(trades, "NIFTY"),
          summary |-> runner_summarize_trades(c, trades),
          daily_stats |-> daily_breakdown(trades), output_csv |-> NoRow]

(* RandomScalpRunner.run for one symbol, whose simulation returned trades *)
scalp_run(starting_capital, trades) ==
    IF trades = <<>>
    THEN [trades |-> << >>, summary |-> NoRow, daily_stats |-> << >>,
          output_csv |-> NoRow,
          message |-> "No trades generated. Loaded data, but no trades occurred."]
    ELSE [trades |-> trades,
          summary |-> scalp_summarize_trades(trades, starting_capital),
          daily_stats |-> scalp_daily_breakdown(trades), output_csv |-> NoRow]

(* The configurations a caller hands to BacktestRunner: those above and   *)
(* the base configuration with a stoploss_points that is not positive.    *)
RequestedConfigs ==
    Configs \cup { [BaseConfig EXCEPT !.stoploss_points = s] : s \in {0, -1} }

(* The field constraints of StrategyParams: TRUE when the model validates. *)
StrategyParams_any_stoploss(config) ==
    /\ config.target_points > 0
    /\ config.atr_min_points >= 0
    /\ config.daily_loss_cap <= 0

StrategyParams(config) ==
    /\ config.target_points > 0
    /\ config.stoploss_points > 0
    /\ config.atr_min_points >= 0
    /\ config.daily_loss_cap <= 0

(* ---------- BacktestRunner._run_backtest_on_df ---------- *)

FlatPosition ==
    /\ in_position' = FALSE
    /\ side' = NoSide
    /\ entry_price' = None
    /\ entry_time' = NoRow
    /\ tp_level' = None
    /\ sl_level' = None
    /\ sig_idx' = None
    /\ entry_idx' = None
    /\ entry_bar' = NoRow

InitScan ==
    /\ pc = "scan"
    /\ i = 1
    /\ \/ prev = NoRow /\ nxt = NoRow
       \/ \E o \in Prices, t \in FrameStamps(cfg) : \E r \in Rows([open |-> o, ts |-> t]) :
              /\ prev = Cells(r)
              /\ nxt \in Heads(1, t)
    /\ in_position = FALSE
    /\ side = NoSide
    /\ entry_price = None
    /\ entry_time = NoRow
    /\ tp_level = None
    /\ sl_level = None
    /\ sig_idx = None
    /\ entry_idx = None
    /\ entry_bar = NoRow
    /\ blocked = FALSE
    /\ results = <<>>
    /\ equity = cfg.starting_capital
    /\ daily_pnl = [d \in Dates |-> 0]
    /\ loss_stopped_days = {}
    /\ stop_idx = [d \in Dates |-> None]
    /\ opened = 0
    /\ last = NoRow
    /\ call = NoRow /\ ret = NoRow
    /\ module_globals = NoRow /\ invocations = NoRow /\ overlapped = FALSE
    /\ output = NoRow /\ sim = NoRow /\ runner = NoRow

exit_decision_square_off_first(c, sd, bar, nb, tp, sl) ==
    IF c.enable_eod_square_off
       /\ (is_last_bar_of_day(bar, nb) \/ past_square_off_time(c, bar.ts))
    THEN ExitAt(bar.close, "Square-off EOD")
    ELSE decide_exit_this_bar(c, sd, bar, tp, sl)

(* lines 203-205: the resolver first, square-off only when it reports no exit *)
exit_decision(c, sd, bar, nb, tp, sl) ==
    LET d == decide_exit_this_bar(c, sd, bar, tp, sl)
    IN  IF ~d.exited /\ c.enable_eod_square_off
           /\ (is_last_bar_of_day(bar, nb) \/ past_square_off_time(c, bar.ts))
        THEN ExitAt(bar.close, "Square-off EOD")
        ELSE d

(* lines 208-225: the trade appended for an exit at bar *)
make_trade(c, sd, e_price, e_time, bar, x, eq) ==
    LET pnl_points == IF sd = "LONG" THEN x.exit_px - e_price ELSE e_price - x.exit_px
        gross_rupees == pnl_points * c.qty_per_point
        costs_rupees == (c.slippage_points * c.qty_per_point * 2) + (2 * c.brokerage_per_trade)
        pnl_rupees == gross_rupees - costs_rupees
    IN  [entry_time |-> e_time, exit_time |-> bar.ts, side |-> sd,
         entry |-> e_price, exit |-> x.exit_px, pnl_points |-> pnl_points,
         gross_rupees |-> gross_rupees, costs_rupees |-> costs_rupees,
         pnl_rupees |-> pnl_rupees, equity |-> eq + pnl_rupees,
         exit_reason |-> x.reason]

(* lines 244-247 *)
entry_levels(c, sd, e_price) ==
    IF sd = "LONG"
    THEN [tp |-> e_price + c.target_points, sl |-> e_price - c.stoploss_points]
    ELSE [tp |-> e_price - c.target_points, sl |-> e_price + c.stoploss_points]

entry_fill_signal_bar(curr, nb) == [price |-> curr.close, time |-> curr.ts]

(* line 243: the fill of a signal taken on row curr, nb the row after it *)
entry_fill(curr, nb) == [price |-> nb.open, time |-> nb.ts]

day_stopped_ignored(d, stopped) == FALSE

(* line 200 *)
day_stopped(d, stopped) == d \in stopped

cap_reached_strictly(c, pnl) == pnl < c.daily_loss_cap

(* line 217 *)
cap_reached(c, pnl) == pnl <= c.daily_loss_cap

(* lines 236-239 *)
confirm_fails(c, sig, curr) ==
    /\ c.confirm_trend_at_entry
    /\ \/ sig = "LONG" /\ ~trend_up(curr)
       \/ sig = "SHORT" /\ ~trend_down(curr)

(* in position, the bar closes the trade: lines 202-228 *)
ScanExit ==
    /\ pc = "scan" /\ nxt # NoRow /\ in_position
    /\ \E cur \in Rows(nxt), nb \in Heads(i + 1, nxt.ts) :
        LET x == exit_decision(cfg, side, cur, nb, tp_level, sl_level)
            t == make_trade(cfg, side, entry_price, entry_time, cur, x, equity)
            ed == cur.ts.date
            day == daily_pnl[ed] + t.pnl_rupees
        IN  /\ x.exited
            /\ equity' = t.equity
            /\ daily_pnl' = [daily_pnl EXCEPT ![ed] = day]
            /\ loss_stopped_days' = IF cap_reached(cfg, day)
                                    THEN loss_stopped_days \cup {ed}
                                    ELSE loss_stopped_days
            /\ stop_idx' = IF cap_reached(cfg, day) /\ ed \notin loss_stopped_days
                           THEN [stop_idx EXCEPT ![ed] = i] ELSE stop_idx
            /\ results' = Append(results,
                   [trade |-> t, sig_idx |-> sig_idx, entry_idx |-> entry_idx,
                    entry_bar |-> entry_bar, exit_idx |-> i])
            /\ last' = [idx |-> i, bar |-> cur, nb |-> nb, side |-> side,
                        tp |-> tp_level, sl |-> sl_level, exited |-> TRUE]
            /\ FlatPosition
            /\ prev' = Cells(cur)
            /\ nxt' = nb
            /\ i' = i + 1
    /\ UNCHANGED <<cfg, pc, opened, blocked, output>>
    /\ UNCHANGED <<resolvervars, globalvars, sim, runner>>

(* in position, the bar does not close the trade: lines 202-206, 230-231 *)
ScanHold ==
    /\ pc = "scan" /\ nxt # NoRow /\ in_position
    /\ \E cur \in Rows(nxt), nb \in Heads(i + 1, nxt.ts) :
        /\ ~exit_decision(cfg, side, cur, nb, tp_level, sl_level).exited
        /\ last' = [idx |-> i, bar |-> cur, nb |-> nb, side |-> side,
                    tp |-> tp_level, sl |-> sl_level, exited |-> FALSE]
        /\ prev' = Cells(cur)
        /\ nxt' = nb
        /\ i' = i + 1
    /\ UNCHANGED <<cfg, pc, opened, blocked, output>>
    /\ UNCHANGED posvars
    /\ UNCHANGED ledgervars
    /\ UNCHANGED <<resolvervars, globalvars, sim, runner>>

(* The signals scalp_signal can return at index idx for the row cur, over  *)
(* the indicator cells the row may hold, the confirmation of lines 236-239 *)
(* passed or (discard) failed.                                             *)
signal_taken(c, idx, pv, cur, sig) ==
    \E ind \in Indicators :
        /\ scalp_signal(c, idx, pv, WithIndicators(cur, ind)) = sig
        /\ ~confirm_fails(c, sig, WithIndicators(cur, ind))

signal_discarded(c, idx, pv, cur) ==
    \E ind \in Indicators :
        LET sig == scalp_signal(c, idx, pv, WithIndicators(cur, ind))
        IN  sig = NoSide \/ confirm_fails(c, sig, WithIndicators(cur, ind))

ScanEnter_onto_entry_bar ==
    /\ pc = "scan" /\ nxt # NoRow /\ ~in_position
    /\ ~day_stopped(nxt.ts.date, loss_stopped_days)
    /\ \E sig \in Sides, nb \in Heads(i + 1, nxt.ts) :
        /\ nb # NoRow
        /\ \E fill \in { entry_fill(cur, nb) :
                             cur \in { r \in Rows(nxt) : signal_taken(cfg, i, prev, r, sig) } } :
            LET lv == entry_levels(cfg, sig, fill.price)
            IN
            /\ in_position' = TRUE
            /\ side' = sig
            /\ entry_price' = fill.price
            /\ entry_time' = fill.time
            /\ entry_bar' = nb
            /\ tp_level' = lv.tp
            /\ sl_level' = lv.sl
            /\ sig_idx' = i
            /\ entry_idx' = i + 1
            /\ prev' = NoRow
            /\ nxt' = nb
            /\ i' = i + 1
    /\ opened' = opened + 1
    /\ last' = NoRow
    /\ UNCHANGED <<cfg, pc, blocked, output>>
    /\ UNCHANGED ledgervars
    /\ UNCHANGED <<resolvervars, globalvars, sim, runner>>

(* flat, a signal is taken and the next row exists: lines 233-249 *)
ScanEnter ==
    /\ pc = "scan" /\ nxt # NoRow /\ ~in_position
    /\ ~day_stopped(nxt.ts.date, loss_stopped_days)
    /\ \E sig \in Sides, nb \in Heads(i + 1, nxt.ts) :
        /\ nb # NoRow
        /\ \E fill \in { entry_fill(cur, nb) :
                             cur \in { r \in Rows(nxt) : signal_taken(cfg, i, prev, r, sig) } } :
            LET lv == entry_levels(cfg, sig, fill.price)
            IN
            /\ in_position' = TRUE
            /\ side' = sig
            /\ entry_price' = fill.price
            /\ entry_time' = fill.time
            /\ entry_bar' = nb
            /\ tp_level' = lv.tp
            /\ sl_level' = lv.sl
            /\ sig_idx' = i
            /\ entry_idx' = i + 1
            /\ prev' = NoRow  \* the iteration at i + 2 is in position and reads no prev
            /\ nxt' \in Heads(i + 2, nb.ts)
            /\ i' = i + 2
    /\ opened' = opened + 1
    /\ last' = NoRow
    /\ UNCHANGED <<cfg, pc, blocked, output>>
    /\ UNCHANGED ledgervars
    /\ UNCHANGED <<resolvervars, globalvars, sim, runner>>

(* flat, nothing is entered: lines 233-241, 250 *)
ScanSkip ==
    /\ pc = "scan" /\ nxt # NoRow /\ ~in_position
    /\ \E nb \in Heads(i + 1, nxt.ts) :
        \E hl \in { h \in HighLows(nxt) :
                        \/ day_stopped(nxt.ts.date, loss_stopped_days)
                        \/ nb = NoRow
                        \/ \E cur \in Rows(nxt) :
                              Cells(cur) = h /\ signal_discarded(cfg, i, prev, cur) } :
            /\ prev' = hl
            /\ nxt' = nb
            /\ i' = i + 1
    /\ blocked' = (blocked \/ day_stopped(nxt.ts.date, loss_stopped_days))
    /\ last' = NoRow
    /\ UNCHANGED <<cfg, pc, opened, output>>
    /\ UNCHANGED posvars
    /\ UNCHANGED ledgervars
    /\ UNCHANGED <<resolvervars, globalvars, sim, runner>>

(* the loop condition fails (lines 196, 252) and execute returns *)
ScanEnd ==
    /\ pc = "scan" /\ nxt = NoRow
    /\ pc' = "done"
    /\ output' = execute(cfg, [k \in 1..Len(results) |-> results[k].trade])
    /\ UNCHANGED <<cfg, i, prev, nxt, opened, last, blocked>>
    /\ UNCHANGED posvars
    /\ UNCHANGED ledgervars
    /\ UNCHANGED <<resolvervars, globalvars, sim, runner>>

(* The locals of a scan that never started.                               *)
NoScan ==
    /\ i = 0 /\ prev = NoRow /\ nxt = NoRow
    /\ in_position = FALSE /\ side = NoSide
    /\ entry_price = None /\ entry_time = NoRow
    /\ tp_level = None /\ sl_level = None
    /\ sig_idx = None /\ entry_idx = None /\ entry_bar = NoRow
    /\ results = <<>> /\ equity = 0
    /\ daily_pnl = [d \in Dates |-> 0]
    /\ loss_stopped_days = {} /\ stop_idx = [d \in Dates |-> None]
    /\ blocked = FALSE /\ opened = 0 /\ last = NoRow
    /\ output = NoRow

(* BacktestRunner.__init__ validates its config as StrategyParams; when a  *)
(* field constraint fails the constructor raises and there is no runner.   *)
ConstructionRaised ==
    /\ pc = "raised" /\ NoScan
    /\ call = NoRow /\ ret = NoRow
    /\ module_globals = NoRow /\ invocations = NoRow /\ overlapped = FALSE
    /\ sim = NoRow /\ runner = NoRow

Init ==
    \E config \in RequestedConfigs :
        /\ cfg = config
        /\ IF StrategyParams(config) THEN InitScan ELSE ConstructionRaised

Next == ScanExit \/ ScanHold \/ ScanEnter \/ ScanSkip \/ ScanEnd

Spec == Init /\ [][Next]_vars

(* The runner built with the base configuration or with one of            *)
(* CapConfigs.                                                             *)
InitDailyStop == \E config \in {BaseConfig} \cup CapConfigs : cfg = config /\ InitScan

SpecDailyStop == InitDailyStop /\ [][Next]_vars

(* The runner built with the configuration of OneLossConfigs.             *)
InitOneLoss == \E config \in OneLossConfigs : cfg = config /\ InitScan

SpecOneLoss == InitOneLoss /\ [][Next]_vars

(* ---------- decide_exit_this_bar, called on its own ---------- *)

(* The scan and the module-level names are not in use.                    *)
ScanOff ==
    /\ cfg = NoRow /\ pc = "off" /\ NoScan

(* Prices of the calls: the levels 98 and 110 and the extremes 97 and 112 *)
(* of a bar around them.                                                   *)
ResolverPrices == {97, 98, 110, 112}

ResolverBars ==
    { [open |-> x[1], high |-> x[2], low |-> x[3], close |-> x[4],
       ts |-> [date |-> 0, time |-> 0]] :
        x \in { y \in ResolverPrices \X ResolverPrices \X ResolverPrices \X ResolverPrices :
                  /\ y[3] <= y[1] /\ y[1] <= y[2]
                  /\ y[3] <= y[4] /\ y[4] <= y[2] } }

ResolverConfigs == { [BaseConfig EXCEPT !.exit_bar_path = p] : p \in Paths }

InitResolver ==
    /\ ScanOff
    /\ call \in [self : ResolverConfigs, position : Sides, bar : ResolverBars,
                  tp : ResolverPrices, sl : ResolverPrices]
    /\ ret = NoRow
    /\ module_globals = NoRow /\ invocations = NoRow /\ overlapped = FALSE
    /\ sim = NoRow /\ runner = NoRow

Resolve ==
    /\ ret = NoRow
    /\ ret' = decide_exit_this_bar(call.self, call.position, call.bar, call.tp, call.sl)
    /\ UNCHANGED <<call, scanvars, globalvars, sim, runner>>

NextResolver == Resolve

SpecResolver == InitResolver /\ [][NextResolver]_vars

(* ---------- scalp_signal, called on its own ---------- *)

(* Session windows of the calls: the base window, a window of one slot    *)
(* and two windows around a gap.                                          *)
SignalConfigs ==
    { [BaseConfig EXCEPT !.trade_direction = d] : d \in {"both", "long_only", "short_only"} }
    \cup { [BaseConfig EXCEPT !.session_windows = w] :
              w \in { << <<1, 1>> >>, << <<0, 0>>, <<LastSlot, LastSlot>> >> } }
    \cup { [BaseConfig EXCEPT !.atr_min_points = 0] }

SignalRows ==
    UNION { Rows([open |-> o, ts |-> [date |-> 0, time |-> t]]) : o \in Prices, t \in Slots }

(* scalp_signal(i) reads df.iloc[i - 1] and df.iloc[i]; at i = 0 it       *)
(* returns before reading either.                                         *)
InitSignal ==
    /\ ScanOff
    /\ \E c \in SignalConfigs, r \in SignalRows, ind \in Indicators :
          \/ call = [self |-> c, i |-> 0, prev |-> NoRow, curr |-> WithIndicators(r, ind)]
          \/ \E p \in SignalRows :
                call = [self |-> c, i |-> 1, prev |-> Cells(p), curr |-> WithIndicators(r, ind)]
    /\ ret = NoRow
    /\ module_globals = NoRow /\ invocations = NoRow /\ overlapped = FALSE
    /\ sim = NoRow /\ runner = NoRow

Signal ==
    /\ ret = NoRow
    /\ ret' = [signal |-> scalp_signal(call.self, call.i, call.prev, call.curr)]
    /\ UNCHANGED <<call, scanvars, globalvars, sim, runner>>

NextSignal == Signal

SpecSignal == InitSignal /\ [][NextSignal]_vars

(* ---------- backtest_tsdb: the engine on module-level names ---------- *)

(* Prices are in tenths of a point, money in tenths of a rupee, times of  *)
(* day in minutes after midnight.                                         *)
ModuleDefaults ==
    [ symbol |-> "NIFTY28OCT2525000CE",
      starting_capital |-> 1000000,
      qty_per_point |-> 150,
      target_points |-> 100,
      stoploss_points |-> 20,
      ema_fast |-> 5,
      ema_slow |-> 20,
      atr_window |-> 14,
      atr_min_points |-> 20,
      session_windows |-> << <<560, 660>>, <<675, 905>> >>,
      daily_loss_cap |-> -10000,
      exit_bar_path |-> "color",
      brokerage_per_trade |-> 200,
      slippage_points |-> 1,
      confirm_trend_at_entry |-> TRUE,
      trade_direction |-> "both",
      enable_eod_square_off |-> TRUE,
      square_off_time |-> 925,
      df |-> <<>> ]

(* time(hh, mm) of hh, mm = map(int, "HH:MM".split(":")), in minutes after *)
(* midnight; the string is written as the pair of its two numbers.         *)
hhmm(s) == (s[1] * 60) + s[2]

(* cfg.get(key, NAME) for every key; square_off_time and session_windows  *)
(* are parsed when the request names them and keep the module's value     *)
(* when it does not.                                                       *)
apply_config(g, request) ==
    IF DOMAIN request = {} THEN g
    ELSE [k \in DOMAIN g |->
            IF k \notin DOMAIN request THEN g[k]
            ELSE IF k = "square_off_time" THEN hhmm(request[k])
            ELSE IF k = "session_windows"
                 THEN [n \in 1..Len(request[k]) |->
                         <<hhmm(request[k][n].start), hhmm(request[k][n].end)>>]
            ELSE request[k]]

(* df.iloc[k] *)
iloc(frame, k) == frame[k + 1]

(* The stored series: 5-minute bars of one day from 09:20, fourteen quiet *)
(* bars, a breakout bar, the bar after it, and two wide bars.             *)
Bar(k, o, h, l, c) ==
    [open |-> o, high |-> h, low |-> l, close |-> c,
     ts |-> [date |-> 0, time |-> 560 + (5 * k)]]

NiftyBars ==
    [k \in 1..14 |-> Bar(k - 1, 1000, 1010, 980, 1000)]
    \o << Bar(14, 1000, 1020, 1000, 1015), Bar(15, 1015, 1020, 1010, 1015),
          Bar(16, 1015, 1070, 1010, 1065), Bar(17, 1065, 1120, 990, 1110) >>

BankNiftyBars ==
    [k \in 1..14 |-> Bar(k - 1, 2000, 2020, 1990, 2000)]
    \o << Bar(14, 2000, 2000, 1980, 1985), Bar(15, 1985, 1990, 1980, 1985),
          Bar(16, 1985, 1990, 1930, 1935), Bar(17, 1935, 2010, 1880, 1890) >>

Symbols == {"NIFTY", "BANKNIFTY"}

load_data_from_db(symbol) ==
    IF symbol = "NIFTY" THEN NiftyBars
    ELSE IF symbol = "BANKNIFTY" THEN BankNiftyBars
    ELSE <<>>

(* close.ewm(span, adjust=False).mean() at row k, to the tenth *)
RECURSIVE ewm(_, _, _)
ewm(frame, span, k) ==
    IF k = 0 THEN iloc(frame, 0).close
    ELSE (((span - 1) * ewm(frame, span, k - 1)) + (2 * iloc(frame, k).close))
            \div (span + 1)

(* _df["close"].shift(1) at row k: NaN at row 0 *)
shift_close(frame, k) == IF k = 0 THEN NaN ELSE iloc(frame, k - 1).close

(* (x - y).abs() and np.maximum(x, y): NaN when an operand is NaN *)
abs_diff(x, y) == IF x = NaN \/ y = NaN THEN NaN ELSE Abs(x - y)

np_maximum(x, y) == IF x = NaN \/ y = NaN THEN NaN ELSE Max(x, y)

(* tr of row k: np.maximum(tr1, np.maximum(tr2, tr3)); NaN at row 0,      *)
(* where tr2 and tr3 are                                                  *)
true_range(frame, k) ==
    LET r == iloc(frame, k)
        pcl == shift_close(frame, k)
    IN  np_maximum(r.high - r.low,
                   np_maximum(abs_diff(r.high, pcl), abs_diff(r.low, pcl)))

RECURSIVE tr_sum(_, _, _)
tr_sum(frame, from, to) ==
    IF from > to THEN 0
    ELSE true_range(frame, to) + tr_sum(frame, from, to - 1)

(* tr.rolling(window).mean() at row k: NaN unless the window holds       *)
(* window values of tr that are not NaN                                   *)
rolling_atr(frame, window, k) ==
    IF k - window + 1 < 0 THEN NaN
    ELSE IF \E j \in (k - window + 1)..k : true_range(frame, j) = NaN THEN NaN
    ELSE tr_sum(frame, k - window + 1, k) \div window

compute_indicators(g, frame) ==
    [k \in 1..Len(frame) |->
        WithIndicators(frame[k],
            [ema_fast |-> ewm(frame, g.ema_fast, k - 1),
             ema_slow |-> ewm(frame, g.ema_slow, k - 1),
             atr |-> rolling_atr(frame, g.atr_window, k - 1)])
        @@ [tr |-> true_range(frame, k - 1)]]

(* ---------- compute_indicators, called on its own ---------- *)

MaxIndicatorBars == 3

(* Rows as compute_indicators reads them: high, low and close.            *)
IndicatorRows(k) ==
    { [open |-> x[3], high |-> x[1], low |-> x[2], close |-> x[3],
       ts |-> [date |-> 0, time |-> k]] :
        x \in { y \in Prices \X Prices \X Prices : y[2] <= y[3] /\ y[3] <= y[1] } }

IndicatorFrames ==
    UNION { { f \in [1..n -> IndicatorRows(0)] : TRUE } : n \in 1..MaxIndicatorBars }

InitIndicators ==
    /\ ScanOff
    /\ \E f \in IndicatorFrames, w \in 1..MaxIndicatorBars :
          call = [self |-> [ema_fast |-> 5, ema_slow |-> 20, atr_window |-> w],
                  frame |-> f]
    /\ ret = NoRow
    /\ module_globals = NoRow /\ invocations = NoRow /\ overlapped = FALSE
    /\ sim = NoRow /\ runner = NoRow

Indicate ==
    /\ ret = NoRow
    /\ ret' = [df |-> compute_indicators(call.self, call.frame)]
    /\ UNCHANGED <<call, scanvars, globalvars, sim, runner>>

NextIndicators == Indicate

SpecIndicators == InitIndicators /\ [][NextIndicators]_vars

run_backtest_locals(g) ==
    [i |-> 1, in_position |-> FALSE, side |-> NoSide,
     entry_price |-> None, entry_time |-> NoRow,
     tp_level |-> None, sl_level |-> None,
     results |-> <<>>, equity |-> g.starting_capital,
     daily_pnl |-> [d \in Dates |-> 0], loss_stopped_days |-> {}]

(* The while loop of run_backtest from the locals st on; every name it    *)
(* reads outside st is a field of g.  The helpers are the module's copies *)
(* of the class's, g in the place of self.                                *)
RECURSIVE run_backtest_loop(_, _)
run_backtest_loop(g, st) ==
    IF st.i >= Len(g.df) THEN st.results
    ELSE
    LET row == iloc(g.df, st.i)
        nb == IF st.i + 1 < Len(g.df) THEN iloc(g.df, st.i + 1) ELSE NoRow
        d == row.ts.date
        step == [st EXCEPT !.i = @ + 1]
    IN  IF st.in_position THEN
            LET x == exit_decision(g, st.side, row, nb, st.tp_level, st.sl_level)
                t == make_trade(g, st.side, st.entry_price, st.entry_time, row, x, st.equity)
                day == st.daily_pnl[d] + t.pnl_rupees
            IN  IF x.exited
                THEN run_backtest_loop(g,
                        [step EXCEPT !.in_position = FALSE, !.side = NoSide,
                                     !.entry_price = None, !.entry_time = NoRow,
                                     !.tp_level = None, !.sl_level = None,
                                     !.results = Append(@, t),
                                     !.equity = t.equity,
                                     !.daily_pnl = [@ EXCEPT ![d] = day],
                                     !.loss_stopped_days =
                                         IF cap_reached(g, day) THEN @ \cup {d} ELSE @])
                ELSE run_backtest_loop(g, step)
        ELSE IF day_stopped(d, st.loss_stopped_days) THEN run_backtest_loop(g, step)
        ELSE
            LET sig == scalp_signal(g, st.i, iloc(g.df, st.i - 1), row)
            IN  IF sig # NoSide /\ ~confirm_fails(g, sig, row) /\ nb # NoRow
                THEN LET fill == entry_fill(row, nb)
                         lv == entry_levels(g, sig, fill.price)
                     IN  run_backtest_loop(g,
                            [st EXCEPT !.i = @ + 2, !.in_position = TRUE, !.side = sig,
                                       !.entry_price = fill.price,
                                       !.entry_time = fill.time,
                                       !.tp_level = lv.tp, !.sl_level = lv.sl])
                ELSE run_backtest_loop(g, step)

run_backtest(g) == run_backtest_loop(g, run_backtest_locals(g))

NoSummary == [none |-> TRUE]

(* summarize_trades, the ratios left out; no summary without trades *)
summarize_trades(g, trades) ==
    IF trades = <<>> THEN NoSummary
    ELSE [total_trades |-> Len(trades),
          wins |-> Cardinality({k \in 1..Len(trades) : trades[k].pnl_rupees > 0}),
          losses |-> Cardinality({k \in 1..Len(trades) : trades[k].pnl_rupees < 0}),
          flats |-> Cardinality({k \in 1..Len(trades) : trades[k].pnl_rupees = 0}),
          gross_rupees |-> column_sum(trades, "gross_rupees"),
          costs_rupees |-> column_sum(trades, "costs_rupees"),
          net_rupees |-> column_sum(trades, "pnl_rupees"),
          final_equity |-> g.starting_capital + column_sum(trades, "pnl_rupees")]

(* ---------- run_backtest_api -> run_backtest_from_config ---------- *)

Calls == {1, 2}

RequestKeys == {"symbol", "target_points", "exit_bar_path"}

(* payload.dict(exclude_none=True): the keys the client sent; every       *)
(* request of the model names its symbol.                                 *)
Requests ==
    { [k \in K |-> full[k]] :
        full \in [symbol : Symbols, target_points : {50, 100},
                  exit_bar_path : {"bull", "bear"}],
        K \in { L \in SUBSET RequestKeys : "symbol" \in L } }

NewCall(request) ==
    [pc |-> "idle", cfg |-> request, sym |-> "None", data_slice |-> <<>>,
     trades |-> <<>>, summary |-> NoSummary]

InitGlobals ==
    /\ ScanOff
    /\ call = NoRow /\ ret = NoRow
    /\ module_globals = ModuleDefaults
    /\ invocations \in [Calls -> { NewCall(r) : r \in Requests }]
    /\ overlapped = FALSE
    /\ sim = NoRow /\ runner = NoRow

Running(t) == invocations[t].pc \notin {"idle", "done"}

(* the threadpool starts the endpoint for a request *)
Call(t) ==
    /\ invocations[t].pc = "idle"
    /\ invocations' = [invocations EXCEPT ![t].pc = "apply"]
    /\ overlapped' = (overlapped \/ \E u \in Calls \ {t} : Running(u))
    /\ UNCHANGED <<module_globals, scanvars, resolvervars, sim, runner>>

ApplyConfig(t) ==
    /\ invocations[t].pc = "apply"
    /\ module_globals' = apply_config(module_globals, invocations[t].cfg)
    /\ invocations' = [invocations EXCEPT ![t].pc = "load"]
    /\ UNCHANGED <<overlapped, scanvars, resolvervars, sim, runner>>

(* symbols_to_test = [SYMBOL]; load_data_from_db; compute_indicators *)
LoadData(t) ==
    /\ invocations[t].pc = "load"
    /\ invocations' =
         [invocations EXCEPT
            ![t].pc = "setdf",
            ![t].sym = module_globals.symbol,
            ![t].data_slice =
                compute_indicators(module_globals,
                                   load_data_from_db(module_globals.symbol))]
    /\ UNCHANGED <<module_globals, overlapped, scanvars, resolvervars, sim, runner>>

(* globals()["df"] = data_slice *)
SetDf(t) ==
    /\ invocations[t].pc = "setdf"
    /\ module_globals' = [module_globals EXCEPT !.df = invocations[t].data_slice]
    /\ invocations' = [invocations EXCEPT ![t].pc = "run"]
    /\ UNCHANGED <<overlapped, scanvars, resolvervars, sim, runner>>

RunBacktest(t) ==
    /\ invocations[t].pc = "run"
    /\ invocations' =
         [invocations EXCEPT
            ![t].pc = "summarize",
            ![t].trades = tag_symbol(run_backtest(module_globals), invocations[t].sym)]
    /\ UNCHANGED <<module_globals, overlapped, scanvars, resolvervars, sim, runner>>

Summarize(t) ==
    /\ invocations[t].pc = "summarize"
    /\ invocations' =
         [invocations EXCEPT
            ![t].pc = "done",
            ![t].summary = summarize_trades(module_globals, invocations[t].trades)]
    /\ UNCHANGED <<module_globals, overlapped, scanvars, resolvervars, sim, runner>>

NextGlobals ==
    \E t \in Calls :
        \/ Call(t)
        \/ ApplyConfig(t)
        \/ LoadData(t)
        \/ SetDf(t)
        \/ RunBacktest(t)
        \/ Summarize(t)

SpecGlobals == InitGlobals /\ [][NextGlobals]_vars

(* ---------- random_scalp / random_scalp_live: _simulate_symbol ---------- *)

(* The loop reads one row per iteration and none again, but the close and *)
(* timestamp of the last one (df.iloc[-1]); has_row says whether          *)
(* df.iloc[idx] exists.  A timestamp is a number; the series handed in by *)
(* _load_ohlcv is ordered, and then the row at idx is stamped idx.        *)
Engines == {"random_scalp", "random_scalp_live"}

CadenceBase ==
    [ trade_every_n_bars |-> 1,
      profit_target_rupees |-> 1,
      stop_loss_rupees |-> 1,
      quantity_multiplier |-> 1,
      brokerage_per_trade |-> 0,
      slippage_rupees |-> 0,
      close_at_bar_close |-> TRUE,
      wait_for_exit |-> FALSE,
      starting_capital |-> 0,
      qty_per_point |-> 1 ]

(* The base parameters and parameters that differ from them in one field, *)
(* or in close_at_bar_close and one or two more (the live-aligned engine  *)
(* holds a position over a cadence count only when trade_every_n_bars is  *)
(* 2 or more).                                                            *)
CadenceConfigs ==
    LET hold == [CadenceBase EXCEPT !.close_at_bar_close = FALSE]
    IN  { CadenceBase, hold,
          [CadenceBase EXCEPT !.trade_every_n_bars = 2],
          [CadenceBase EXCEPT !.stop_loss_rupees = 0],
          [CadenceBase EXCEPT !.quantity_multiplier = 2, !.brokerage_per_trade = 1,
                              !.starting_capital = 100],
          [CadenceBase EXCEPT !.slippage_rupees = 1],
          [CadenceBase EXCEPT !.wait_for_exit = TRUE],
          [hold EXCEPT !.trade_every_n_bars = 2],
          [hold EXCEPT !.wait_for_exit = TRUE],
          [hold EXCEPT !.stop_loss_rupees = 0],
          [hold EXCEPT !.trade_every_n_bars = 2, !.stop_loss_rupees = 0],
          [hold EXCEPT !.trade_every_n_bars = 2, !.wait_for_exit = TRUE] }

(* Prices of the rows, in rupees: an entry price, the price one target or  *)
(* one stop away from it, and the price between.                           *)
CadencePrices == {0, 1, 2}

(* What a caller hands to run(): the parameters above and the base        *)
(* parameters with a negative stop_loss_rupees.                           *)
CadenceRequested ==
    CadenceConfigs \cup { [CadenceBase EXCEPT !.stop_loss_rupees = -1] }

(* The field constraints of the cadence StrategyParams.                   *)
CadenceStrategyParams(p) ==
    /\ p.trade_every_n_bars >= 1 /\ p.trade_every_n_bars <= 1000
    /\ p.profit_target_rupees > 0
    /\ p.stop_loss_rupees >= 0
    /\ p.quantity_multiplier > 0
    /\ p.brokerage_per_trade >= 0
    /\ p.slippage_rupees >= 0

CadenceRows(stamps) ==
    { [open |-> x[1], high |-> x[2], low |-> x[3], close |-> x[4], ts |-> t] :
        x \in { y \in CadencePrices \X CadencePrices \X CadencePrices \X CadencePrices :
                  /\ y[3] <= y[1] /\ y[1] <= y[2]
                  /\ y[3] <= y[4] /\ y[4] <= y[2] },
        t \in stamps }

(* qty_rupees *)
qty_rupees(p) == p.qty_per_point * p.quantity_multiplier

scalp_costs_unscaled(p) == (p.brokerage_per_trade * 2) + p.slippage_rupees

(* random_scalp: costs = broker_fee + slippage *)
scalp_costs(p) ==
    (p.brokerage_per_trade * 2 * p.quantity_multiplier)
    + (p.slippage_rupees * p.quantity_multiplier)

(* random_scalp_live: total_costs_per_trade, the two halves of the        *)
(* slippage added up                                                      *)
live_costs(p) ==
    ((2 * p.brokerage_per_trade) + p.slippage_rupees) * p.quantity_multiplier

trade_costs(engine, p) ==
    IF engine = "random_scalp" THEN scalp_costs(p) ELSE live_costs(p)

stop_first_exit(p, pos, row) ==
    LET target_price == pos.entry_price + p.profit_target_rupees
        stop_price == pos.entry_price - p.stop_loss_rupees
    IN  IF row.low <= stop_price THEN ExitAt(stop_price, "Stoploss Hit")
        ELSE IF row.high >= target_price THEN ExitAt(target_price, "Target Hit")
        ELSE IF p.close_at_bar_close THEN ExitAt(row.close, "Close @ Bar End")
        ELSE NoExit

(* the exit check of an open position on a row: target, else stop (when   *)
(* stop_loss > 0), else the bar's close (when close_at_bar_close)         *)
cadence_exit(p, pos, row) ==
    LET target_price == pos.entry_price + p.profit_target_rupees
        stop_price == IF p.stop_loss_rupees > 0
                      THEN pos.entry_price - p.stop_loss_rupees ELSE None
    IN  IF row.high >= target_price THEN ExitAt(target_price, "Target Hit")
        ELSE IF stop_price # None /\ row.low <= stop_price
             THEN ExitAt(stop_price, "Stoploss Hit")
        ELSE IF p.close_at_bar_close THEN ExitAt(row.close, "Close @ Bar End")
        ELSE NoExit

(* the TradeResult appended when pos is closed at exit_price, and the     *)
(* bar indices of its entry and exit                                      *)
TradeResult(engine, p, pos, exit_time, exit_idx, exit_price, reason, eq) ==
    LET pnl_points == exit_price - pos.entry_price
        gross == pnl_points * qty_rupees(p)
        costs == trade_costs(engine, p)
        pnl == gross - costs
    IN  [entry_time |-> pos.entry_time, exit_time |-> exit_time, side |-> "LONG",
         entry |-> pos.entry_price, exit |-> exit_price,
         gross_rupees |-> gross, costs_rupees |-> costs, pnl_rupees |-> pnl,
         exit_reason |-> reason, cumulative_equity |-> eq + pnl,
         entry_idx |-> pos.entry_idx, exit_idx |-> exit_idx]

(* s with its open position closed *)
close_position(s, exit_time, exit_idx, exit_price, reason) ==
    LET t == TradeResult(s.engine, s.params, s.open_position, exit_time, exit_idx,
                         exit_price, reason, s.equity)
    IN  [s EXCEPT !.trades = Append(@, t), !.equity = t.cumulative_equity,
                  !.open_position = NoRow]

open_at_close(s, row) ==
    [s EXCEPT !.open_position =
        [entry_price |-> row.close, entry_time |-> row.ts, entry_idx |-> s.idx]]

(* s with a position opened at the open of row *)
open_at(s, row) ==
    [s EXCEPT !.open_position =
        [entry_price |-> row.open, entry_time |-> row.ts, entry_idx |-> s.idx]]

NewSim(engine, p, ordered, has_row) ==
    [engine |-> engine, params |-> p, ordered |-> ordered, disordered |-> FALSE,
     pc |-> "loop", idx |-> 0, has_row |-> has_row, last_row |-> NoRow,
     open_position |-> NoRow, trades |-> <<>>, equity |-> p.starting_capital,
     bar_counter |-> 0, pending_signal |-> FALSE, next_entry_bar_idx |-> None,
     ev |-> NoRow, output |-> NoRow]

(* max(int(trade_every_n_bars), 1) *)
trade_gap(p) == IF p.trade_every_n_bars >= 1 THEN p.trade_every_n_bars ELSE 1

(* random_scalp, one iteration of the for loop on row *)
scalp_bar(s, row) ==
    LET p == s.params
        held == s.open_position
        x == IF held # NoRow THEN cadence_exit(p, held, row) ELSE NoExit
        s1 == IF x.exited
              THEN close_position(s, row.ts, s.idx, x.exit_px, x.reason) ELSE s
        trigger == s.idx % trade_gap(p) = 0
        should_enter == IF s1.open_position = NoRow THEN trigger
                        ELSE ~p.wait_for_exit /\ trigger
        forced == should_enter /\ s1.open_position # NoRow /\ ~p.wait_for_exit
        s2 == IF forced
              THEN close_position(s1, row.ts, s.idx, row.open, "Forced Exit (New Entry)")
              ELSE s1
        s3 == IF should_enter THEN open_at(s2, row) ELSE s2
    IN  [s3 EXCEPT !.ev = [idx |-> s.idx, row |-> row, held |-> held, exit |-> x,
                           trades_before |-> Len(s.trades), cadence |-> trigger,
                           trigger |-> trigger, held_at_trigger |-> s1.open_position,
                           forced |-> forced, entered |-> should_enter]]

(* random_scalp_live, one iteration of the for loop on row; more says     *)
(* whether idx + 1 < len(df)                                              *)
live_bar(s, row, more) ==
    LET p == s.params
        held == s.open_position
        x == IF held # NoRow THEN cadence_exit(p, held, row) ELSE NoExit
        s1 == IF x.exited
              THEN [close_position(s, row.ts, s.idx, x.exit_px, x.reason)
                        EXCEPT !.pending_signal = FALSE, !.next_entry_bar_idx = None]
              ELSE s
        s2 == [s1 EXCEPT !.bar_counter = @ + 1]
        should_generate_signal ==
            /\ s2.bar_counter % trade_gap(p) = 0
            /\ (p.wait_for_exit => s2.open_position = NoRow)
        s3 == IF should_generate_signal /\ more
              THEN [s2 EXCEPT !.pending_signal = TRUE, !.next_entry_bar_idx = s.idx + 1]
              ELSE s2
        execute_entry == s3.pending_signal /\ s3.next_entry_bar_idx = s.idx
        forced == execute_entry /\ s3.open_position # NoRow /\ ~p.wait_for_exit
        s4 == IF forced
              THEN close_position(s3, row.ts, s.idx, row.open, "Forced Exit (New Entry)")
              ELSE s3
        s5 == IF execute_entry
              THEN [open_at(s4, row) EXCEPT !.pending_signal = FALSE,
                                            !.next_entry_bar_idx = None]
              ELSE s4
    IN  [s5 EXCEPT !.ev = [idx |-> s.idx, row |-> row, held |-> held, exit |-> x,
                           trades_before |-> Len(s.trades),
                           cadence |-> (s2.bar_counter % trade_gap(p) = 0),
                           trigger |-> execute_entry,
                           held_at_trigger |-> s3.open_position,
                           forced |-> forced, entered |-> execute_entry,
                           signal |-> should_generate_signal, more |-> more]]

(* the loop moves on to the next row *)
next_row(s, row, more) ==
    [s EXCEPT !.idx = @ + 1, !.has_row = more,
              !.last_row = [close |-> row.close, ts |-> row.ts],
              !.disordered = @ \/ (s.last_row # NoRow /\ row.ts <= s.last_row.ts)]

(* The stamps the row at s.idx may carry: its index in a frame read by    *)
(* _load_ohlcv; in a frame handed in by another caller the index steps    *)
(* forward by one, but at one row it may stand still or step back.        *)
Stamps(s) ==
    IF s.ordered \/ s.last_row = NoRow THEN {s.idx}
    ELSE IF s.disordered THEN {s.last_row.ts + 1}
    ELSE {s.last_row.ts - 1, s.last_row.ts, s.last_row.ts + 1}

MoreRows(s) == IF s.idx + 1 < MaxCadenceBars THEN BOOLEAN ELSE {FALSE}

ScalpBar ==
    /\ sim # NoRow /\ sim.pc = "loop" /\ sim.has_row
    /\ sim.engine = "random_scalp"
    /\ \E row \in CadenceRows(Stamps(sim)), more \in MoreRows(sim) :
          sim' = next_row(scalp_bar(sim, row), row, more)
    /\ UNCHANGED <<scanvars, resolvervars, globalvars, runner>>

LiveBar ==
    /\ sim # NoRow /\ sim.pc = "loop" /\ sim.has_row
    /\ sim.engine = "random_scalp_live"
    /\ \E row \in CadenceRows(Stamps(sim)), more \in MoreRows(sim) :
          sim' = next_row(live_bar(sim, row, more), row, more)
    /\ UNCHANGED <<scanvars, resolvervars, globalvars, runner>>

(* after the loop: the remaining position is closed at the last close,   *)
(* _simulate_symbol returns and run builds its result                     *)
SimulateEnd ==
    /\ sim # NoRow /\ sim.pc = "loop" /\ ~sim.has_row
    /\ LET closed == IF sim.open_position # NoRow
                     THEN close_position(sim, sim.last_row.ts, sim.idx - 1,
                                         sim.last_row.close, "End of Data")
                     ELSE sim
       IN  sim' = [closed EXCEPT
                     !.pc = "done", !.ev = NoRow,
                     !.output = scalp_run(closed.params.starting_capital, closed.trades)]
    /\ UNCHANGED <<scanvars, resolvervars, globalvars, runner>>

InitCadence ==
    /\ ScanOff
    /\ call = NoRow /\ ret = NoRow
    /\ module_globals = NoRow /\ invocations = NoRow /\ overlapped = FALSE
    /\ runner = NoRow
    /\ \E e \in Engines, p \in CadenceRequested :
          IF CadenceStrategyParams(p)
          THEN \E h \in BOOLEAN : sim = NewSim(e, p, TRUE, h)
          ELSE sim = [NewSim(e, p, TRUE, FALSE) EXCEPT !.pc = "raised"]

NextCadence == ScalpBar \/ LiveBar \/ SimulateEnd

SpecCadence == InitCadence /\ [][NextCadence]_vars

(* ---------- _simulate_symbol on a frame handed in by its caller ---------- *)

(* _simulate_symbol(symbol, df) takes the frame as an argument; a caller   *)
(* other than run may hand in a frame whose index is not increasing.       *)
HandedConfigs == { CadenceBase, [CadenceBase EXCEPT !.close_at_bar_close = FALSE] }

InitHanded ==
    /\ ScanOff
    /\ call = NoRow /\ ret = NoRow
    /\ module_globals = NoRow /\ invocations = NoRow /\ overlapped = FALSE
    /\ runner = NoRow
    /\ sim \in { NewSim(e, p, FALSE, h) :
                    e \in Engines, p \in HandedConfigs, h \in BOOLEAN }

SpecHanded == InitHanded /\ [][NextCadence]_vars

(* ---------- either engine, from the configuration on ---------- *)

InitEngines == Init \/ InitCadence

NextEngines == Next \/ NextCadence

SpecEngines == InitEngines /\ [][NextEngines]_vars

(* ---------- tester_app: PermutationRunner ---------- *)

(* The runner is one record: the fields of the object, the Event objects   *)
(* it has created (events[e] is the flag of Event e, _pause_event names    *)
(* the current one), its run-loop threads with the futures of their        *)
(* executors, the API calls in progress, and the history of submissions    *)
(* and of on_result_callback invocations.                                  *)

MaxJobs == 2       \* values of the varied parameter in the initial param_ranges
MaxCalls == 3      \* API calls made on the runner in one behaviour
MaxThreads == 2    \* run-loop threads created in one behaviour

Callers == {1, 2}

NoThread == 0

StrategyName == "scalp_with_trend"

(* Job(strategy_name, symbol, params) *)
Job(strategy_name, symbol, params) ==
    [strategy_name |-> strategy_name, symbol |-> symbol, params |-> params]

(* lines 60-65: a single value becomes a list of one value *)
param_list(value) == IF value.is_list THEN value.items ELSE <<value.item>>

RECURSIVE Flatten(_)
Flatten(seqs) == IF seqs = <<>> THEN <<>> ELSE Head(seqs) \o Flatten(Tail(seqs))

(* lines 43-83: one job per symbol and value of the product, symbol-major; *)
(* no symbols, no jobs                                                     *)
generate_jobs(strategy_name, param_ranges) ==
    LET symbols == param_ranges.symbols
        values == param_list(param_ranges.target_points)
    IN  IF symbols = <<>> THEN <<>>
        ELSE Flatten([s \in 1..Len(symbols) |->
                         [v \in 1..Len(values) |->
                             Job(strategy_name, symbols[s],
                                 [target_points |-> values[v]])]])

ListOf(items) == [is_list |-> TRUE, items |-> items, item |-> None]

SingleValue(item) == [is_list |-> FALSE, items |-> <<>>, item |-> item]

(* param_ranges and max_workers of the constructor call *)
ConstructorArgs ==
    { [param_ranges |-> [symbols |-> <<"NIFTY">>,
                         target_points |-> ListOf([v \in 1..MaxJobs |-> v])],
       max_workers |-> 0],
      [param_ranges |-> [symbols |-> <<"NIFTY", "BANKNIFTY">>,
                         target_points |-> SingleValue(1)],
       max_workers |-> 2] }

(* param_ranges of a reconfigure call *)
NewRanges ==
    { [symbols |-> <<"BANKNIFTY">>, target_points |-> SingleValue(2)],
      [symbols |-> <<>>, target_points |-> SingleValue(2)] }

NoArg == [none |-> TRUE]

(* the arguments of a reconfigure call; NoArg stands for None *)
ReconfigureArgs ==
    { [base_config |-> NoArg, param_ranges |-> p, max_workers |-> NoArg] :
        p \in NewRanges } \cup
    { [base_config |-> [symbol |-> "NIFTY", target_points |-> 9],
       param_ranges |-> NoArg, max_workers |-> [value |-> 0]] }

IdleCall == [op |-> "none", pc |-> "idle", target |-> NoThread, args |-> NoArg]

(* lines 94-121: __init__ *)
NewRunner(base_config, param_ranges, max_workers) ==
    [ strategy_name |-> StrategyName,
      base_config |-> base_config,
      param_ranges |-> param_ranges,
      max_workers |-> Max(1, max_workers),
      all_jobs |-> generate_jobs(StrategyName, param_ranges),
      total_jobs |-> Len(generate_jobs(StrategyName, param_ranges)),
      index |-> 0,
      lock |-> 0,
      thread |-> NoThread,
      events |-> <<FALSE>>,
      pause_event |-> 1,
      stop_requested |-> FALSE,
      running |-> FALSE,
      current_jobs |-> {},
      last_result |-> NoRow,
      last_error |-> NoRow,
      completed_count |-> 0,
      threads |-> <<>>,
      callers |-> [c \in Callers |-> IdleCall],
      calls |-> 0,
      submitted |-> <<>>,
      outcomes |-> <<>>,
      resumes |-> 0,
      paused |-> FALSE,
      reconfigured |-> NoRow ]

(* Thread.is_alive() *)
is_alive(r, t) == t # NoThread /\ r.threads[t].pc # "dead"

(* Event.is_set() of the Event self._pause_event names *)
pause_event_is_set(r) == r.events[r.pause_event]

set_event(r, e, flag) == [r EXCEPT !.events[e] = flag]

RunnerOn == runner # NoRow

(* Threads of the application that call the runner: caller c makes a call  *)
(* when it is in none and the callers before it are busy.                  *)
CanCall(c) ==
    /\ RunnerOn
    /\ c \in DOMAIN runner.callers
    /\ runner.callers[c].pc = "idle"
    /\ \A d \in DOMAIN runner.callers : d < c => runner.callers[d].pc # "idle"
    /\ runner.calls < MaxCalls

InCall(c, op, pc_) ==
    /\ RunnerOn
    /\ c \in DOMAIN runner.callers
    /\ runner.callers[c].op = op /\ runner.callers[c].pc = pc_

CallReturned(r, c) == [r EXCEPT !.callers[c] = IdleCall]

OtherVarsUnchanged == UNCHANGED <<scanvars, resolvervars, globalvars, sim>>

NewThread(r) ==
    [pc |-> "begin", pool |-> 0, waiting |-> 0, active |-> <<>>, job |-> NoRow]

start_locked_from_zero(r, c) ==
    IF is_alive(r, r.thread)
    THEN [set_event(r, r.pause_event, TRUE) EXCEPT !.index = 0]
    ELSE LET r1 == IF r.index >= r.total_jobs
                   THEN [r EXCEPT !.index = 0, !.completed_count = 0]
                   ELSE r
             r2 == set_event(r1, r1.pause_event, TRUE)
         IN  [r2 EXCEPT !.stop_requested = FALSE,
                        !.threads = Append(@, NewThread(r2)),
                        !.thread = Len(r2.threads) + 1]

(* start(), lines 166-180: under the lock, up to the start of the thread   *)
start_locked(r, c) ==
    IF is_alive(r, r.thread)
    THEN set_event(r, r.pause_event, TRUE)
    ELSE LET r1 == IF r.index >= r.total_jobs
                   THEN [r EXCEPT !.index = 0, !.completed_count = 0]
                   ELSE r
             r2 == set_event(r1, r1.pause_event, TRUE)
         IN  [r2 EXCEPT !.stop_requested = FALSE,
                        !.threads = Append(@, NewThread(r2)),
                        !.thread = Len(r2.threads) + 1]

RunnerStart(c) ==
    /\ CanCall(c) /\ runner.lock = 0
    /\ is_alive(runner, runner.thread) \/ Len(runner.threads) < MaxThreads
    /\ runner' = [start_locked(runner, c) EXCEPT
                    !.lock = c, !.calls = @ + 1, !.paused = FALSE,
                    !.resumes = IF is_alive(runner, runner.thread) /\ runner.paused
                                THEN @ + 1 ELSE @,
                    !.callers[c] = [IdleCall EXCEPT !.op = "start", !.pc = "running"]]
    /\ OtherVarsUnchanged

(* start(), lines 169 and 180: self.running = True, then the lock is       *)
(* released and the call returns                                           *)
RunnerStartReturn(c) ==
    /\ InCall(c, "start", "running")
    /\ runner' = CallReturned([runner EXCEPT !.running = TRUE, !.lock = 0], c)
    /\ OtherVarsUnchanged

(* pause(), line 185 *)
RunnerPause(c) ==
    /\ CanCall(c)
    /\ runner' = [set_event(runner, runner.pause_event, FALSE) EXCEPT
                    !.calls = @ + 1,
                    !.callers[c] = [IdleCall EXCEPT !.op = "pause", !.pc = "running"]]
    /\ OtherVarsUnchanged

(* pause(), line 186, and the return *)
RunnerPauseReturn(c) ==
    /\ InCall(c, "pause", "running")
    /\ runner' = CallReturned([runner EXCEPT !.running = FALSE, !.paused = TRUE], c)
    /\ OtherVarsUnchanged

(* reset(), lines 147-149 *)
RunnerReset(c) ==
    /\ CanCall(c) /\ runner.lock = 0
    /\ runner' = [set_event(runner, runner.pause_event, TRUE) EXCEPT
                    !.stop_requested = TRUE,
                    !.calls = @ + 1, !.paused = FALSE,
                    !.callers[c] = [IdleCall EXCEPT !.op = "reset", !.pc = "join"]]
    /\ OtherVarsUnchanged

(* reset(), lines 150-151: the thread to join, if one is alive, and the    *)
(* return of join() once it has exited                                     *)
RunnerResetJoin(c) ==
    /\ \/ /\ InCall(c, "reset", "join")
          /\ runner' = IF is_alive(runner, runner.thread)
                       THEN [runner EXCEPT !.callers[c].pc = "joining",
                                           !.callers[c].target = runner.thread]
                       ELSE [runner EXCEPT !.callers[c].pc = "clear"]
       \/ /\ InCall(c, "reset", "joining")
          /\ ~is_alive(runner, runner.callers[c].target)
          /\ runner' = [runner EXCEPT !.callers[c].pc = "clear",
                                      !.callers[c].target = NoThread]
    /\ OtherVarsUnchanged

(* reset(), lines 152-161 *)
RunnerResetClear(c) ==
    /\ InCall(c, "reset", "clear") /\ runner.lock = 0
    /\ runner' = CallReturned([runner EXCEPT
                    !.index = 0, !.completed_count = 0, !.current_jobs = {},
                    !.last_result = NoRow, !.last_error = NoRow,
                    !.stop_requested = FALSE, !.running = FALSE,
                    !.thread = NoThread,
                    !.events = Append(@, FALSE),
                    !.pause_event = Len(runner.events) + 1], c)
    /\ OtherVarsUnchanged

reconfigure_raises_when_running(r, args) == r.running

(* reconfigure(), line 132: the call raises RuntimeError *)
reconfigure_raises(r, args) == r.running \/ is_alive(r, r.thread)

(* reconfigure(), lines 135-143 *)
reconfigure(r, args) ==
    LET r1 == IF args.base_config # NoArg
              THEN [r EXCEPT !.base_config = args.base_config] ELSE r
        r2 == IF args.max_workers # NoArg
              THEN [r1 EXCEPT !.max_workers = Max(1, args.max_workers.value)] ELSE r1
    IN  IF args.param_ranges # NoArg
        THEN [r2 EXCEPT !.param_ranges = args.param_ranges,
                        !.all_jobs = generate_jobs(r.strategy_name, args.param_ranges),
                        !.total_jobs = Len(generate_jobs(r.strategy_name, args.param_ranges)),
                        !.index = 0, !.completed_count = 0]
        ELSE r2

RunnerReconfigure(c) ==
    /\ CanCall(c) /\ runner.lock = 0
    /\ \E args \in ReconfigureArgs :
          LET raised == reconfigure_raises(runner, args)
              r1 == IF raised THEN runner ELSE reconfigure(runner, args)
          IN  runner' = [r1 EXCEPT !.calls = @ + 1,
                                   !.reconfigured = [n |-> runner.calls + 1,
                                                     args |-> args, raised |-> raised]]
    /\ OtherVarsUnchanged

(* ----- the run loop, one thread t ----- *)

Thread(t) == runner.threads[t]

AtLine(t, pc_) == RunnerOn /\ t \in 1..Len(runner.threads) /\ Thread(t).pc = pc_

Finished(f) == f.state \in {"ok", "raised"}

Executing(th) == Cardinality({ k \in 1..Len(th.active) : th.active[k].state = "running" })

(* executor.submit: a free worker takes the job at once *)
submit(th, job) ==
    [th EXCEPT !.active = Append(@,
        [job |-> job, seen |-> FALSE,
         state |-> IF Executing(th) < th.pool THEN "running" ELSE "queued"])]

RemoveAt(seq, k) == SubSeq(seq, 1, k - 1) \o SubSeq(seq, k + 1, Len(seq))

(* _run_single_job, lines 297-302: the payload it returns *)
result_payload(job) ==
    [strategy |-> job.strategy_name, symbol |-> job.symbol, params |-> job.params]

(* lines 200-201 *)
LoopBegin(t) ==
    /\ AtLine(t, "begin")
    /\ runner' = [runner EXCEPT !.running = TRUE,
                                !.threads[t].pool = runner.max_workers,
                                !.threads[t].pc = "outer"]
    /\ OtherVarsUnchanged

(* line 203, and the Event line 204 is about to wait on *)
LoopOuter(t) ==
    /\ AtLine(t, "outer")
    /\ runner' = IF runner.stop_requested
                 THEN [runner EXCEPT !.threads[t].pc = "shutdown"]
                 ELSE [runner EXCEPT !.threads[t].pc = "wait",
                                     !.threads[t].waiting = runner.pause_event]
    /\ OtherVarsUnchanged

(* lines 204-206: wait() returns *)
LoopWait(t) ==
    /\ AtLine(t, "wait")
    /\ runner.events[Thread(t).waiting]
    /\ runner' = [runner EXCEPT !.threads[t].waiting = 0,
                                !.threads[t].pc = IF runner.stop_requested
                                                  THEN "shutdown" ELSE "inner"]
    /\ OtherVarsUnchanged

(* line 208, and line 265 when the condition fails *)
LoopInner(t) ==
    /\ AtLine(t, "inner")
    /\ runner' = [runner EXCEPT !.threads[t].pc =
                     IF pause_event_is_set(runner) /\ ~runner.stop_requested
                     THEN "submit" ELSE "outer"]
    /\ OtherVarsUnchanged

(* line 210 *)
room_in_pool(r, th) == Len(th.active) < r.max_workers

(* lines 210-215, with _next_job (189-196) *)
LoopSubmit(t) ==
    /\ AtLine(t, "submit")
    /\ IF ~room_in_pool(runner, Thread(t)) \/ runner.index >= runner.total_jobs
       THEN /\ room_in_pool(runner, Thread(t)) => runner.lock = 0
            /\ runner' = [runner EXCEPT !.threads[t].pc = "check"]
       ELSE /\ runner.lock = 0
            /\ LET job == runner.all_jobs[runner.index + 1]
               IN  runner' = [runner EXCEPT
                      !.index = @ + 1,
                      !.threads[t] = [submit(Thread(t), job) EXCEPT
                                         !.pc = "track", !.job = job],
                      !.submitted = Append(@, [job |-> job, index |-> runner.index,
                                               thread |-> t, paused |-> runner.paused,
                                               resumes |-> runner.resumes])]
    /\ OtherVarsUnchanged

(* lines 216-217 *)
LoopTrack(t) ==
    /\ AtLine(t, "track") /\ runner.lock = 0
    /\ runner' = [runner EXCEPT !.current_jobs = @ \cup {Thread(t).job},
                                !.threads[t].job = NoRow,
                                !.threads[t].pc = "submit"]
    /\ OtherVarsUnchanged

(* lines 220-227 *)
LoopCheck(t) ==
    /\ AtLine(t, "check")
    /\ runner' = [runner EXCEPT !.threads[t].pc =
                     IF Thread(t).active # <<>> THEN "waitdone"
                     ELSE IF runner.index >= runner.total_jobs THEN "finish"
                     ELSE "inner"]
    /\ OtherVarsUnchanged

(* lines 230-236: the futures that are done, or none after the timeout *)
LoopWaitDone(t) ==
    /\ AtLine(t, "waitdone")
    /\ LET th == Thread(t)
       IN  runner' = IF \E k \in 1..Len(th.active) : Finished(th.active[k])
                     THEN [runner EXCEPT
                             !.threads[t].pc = "process",
                             !.threads[t].active =
                                 [k \in 1..Len(th.active) |->
                                     [th.active[k] EXCEPT !.seen = Finished(th.active[k])]]]
                     ELSE [runner EXCEPT !.threads[t].pc = "inner"]
    /\ OtherVarsUnchanged

callback_invoked_for_any(f) == f.state \in {"ok", "raised"}

(* line 247-248: the callback is invoked for a result *)
callback_invoked(f) == f.state = "ok"

(* lines 239-256: one future of done *)
LoopProcess(t) ==
    /\ AtLine(t, "process") /\ runner.lock = 0
    /\ \E k \in { j \in 1..Len(Thread(t).active) : Thread(t).active[j].seen } :
          LET f == Thread(t).active[k]
              rest == RemoveAt(Thread(t).active, k)
              r1 == [runner EXCEPT
                       !.current_jobs = @ \ {f.job},
                       !.completed_count = @ + 1,
                       !.threads[t].active = rest,
                       !.threads[t].pc =
                           IF \E j \in 1..Len(rest) : rest[j].seen
                           THEN "process" ELSE "final"]
              r2 == IF f.state = "ok"
                    THEN [r1 EXCEPT !.last_result = result_payload(f.job),
                                    !.last_error = NoRow]
                    ELSE [r1 EXCEPT !.last_error = [error |-> f.job]]
          IN  runner' = [r2 EXCEPT !.outcomes = Append(@,
                            [job |-> f.job, thread |-> t, ok |-> f.state = "ok",
                             callback |-> IF callback_invoked(f)
                                          THEN result_payload(f.job) ELSE NoRow])]
    /\ OtherVarsUnchanged

(* lines 259-263 *)
LoopFinal(t) ==
    /\ AtLine(t, "final")
    /\ runner' = [runner EXCEPT !.threads[t].pc =
                     IF runner.index >= runner.total_jobs /\ Thread(t).active = <<>>
                     THEN "finish" ELSE "inner"]
    /\ OtherVarsUnchanged

(* lines 223 and 261 *)
LoopFinish(t) ==
    /\ AtLine(t, "finish")
    /\ runner' = [runner EXCEPT !.running = FALSE, !.threads[t].pc = "clear"]
    /\ OtherVarsUnchanged

(* lines 224-225 and 262-263: the Event is cleared and _run_loop returns   *)
LoopClear(t) ==
    /\ AtLine(t, "clear")
    /\ runner' = [set_event(runner, runner.pause_event, FALSE) EXCEPT
                    !.threads[t].pc = "exit"]
    /\ OtherVarsUnchanged

(* the loop was left by stop_requested: the executor shuts down once its   *)
(* futures have run, then line 266                                         *)
LoopShutdown(t) ==
    /\ AtLine(t, "shutdown")
    /\ \A k \in 1..Len(Thread(t).active) : Finished(Thread(t).active[k])
    /\ runner' = [runner EXCEPT !.running = FALSE,
                                !.threads[t].active = <<>>,
                                !.threads[t].pc = "exit"]
    /\ OtherVarsUnchanged

(* _run_loop has returned: the idle workers are joined and the thread ends, *)
(* is_alive() is true until then                                            *)
LoopExit(t) ==
    /\ AtLine(t, "exit")
    /\ runner' = [runner EXCEPT !.threads[t].pc = "dead"]
    /\ OtherVarsUnchanged

(* a worker of the executor of thread t: _run_single_job returns or raises, *)
(* and the worker takes the next queued future                              *)
JobDone(t) ==
    /\ RunnerOn /\ t \in 1..Len(runner.threads)
    /\ \E k \in { j \in 1..Len(Thread(t).active) : Thread(t).active[j].state = "running" },
          outcome \in {"ok", "raised"} :
          LET a1 == [Thread(t).active EXCEPT ![k].state = outcome]
              queued == { j \in 1..Len(a1) : a1[j].state = "queued" }
              a2 == IF queued = {} THEN a1
                    ELSE [a1 EXCEPT ![CHOOSE j \in queued : \A q \in queued : j <= q].state
                                        = "running"]
          IN  runner' = [runner EXCEPT !.threads[t].active = a2]
    /\ OtherVarsUnchanged

(* status(), lines 310-333 *)
status(r) ==
    [ running |-> r.running /\ pause_event_is_set(r),
      paused |-> ~pause_event_is_set(r) /\ ~r.stop_requested /\ r.completed_count > 0,
      current_jobs |-> r.current_jobs,
      active_workers |-> Cardinality(r.current_jobs),
      completed_jobs |-> r.completed_count,
      total_jobs |-> r.total_jobs,
      remaining_jobs |-> Max(r.total_jobs - r.completed_count, 0),
      last_result |-> r.last_result,
      last_error |-> r.last_error,
      max_workers |-> r.max_workers,
      strategy |-> r.strategy_name ]

InitRunner ==
    /\ ScanOff
    /\ call = NoRow /\ ret = NoRow
    /\ module_globals = NoRow /\ invocations = NoRow /\ overlapped = FALSE
    /\ sim = NoRow
    /\ \E a \in ConstructorArgs :
          runner = [NewRunner([symbol |-> "NIFTY", target_points |-> 1],
                              a.param_ranges, a.max_workers)
                        EXCEPT !.callers = [c \in {1} |-> IdleCall]]

NextRunner ==
    \/ \E c \in Callers :
          \/ RunnerStart(c) \/ RunnerStartReturn(c)
          \/ RunnerPause(c) \/ RunnerPauseReturn(c)
          \/ RunnerReset(c) \/ RunnerResetJoin(c) \/ RunnerResetClear(c)
          \/ RunnerReconfigure(c)
    \/ \E t \in 1..MaxThreads :
          \/ LoopBegin(t) \/ LoopOuter(t) \/ LoopWait(t) \/ LoopInner(t)
          \/ LoopSubmit(t) \/ LoopTrack(t) \/ LoopCheck(t) \/ LoopWaitDone(t)
          \/ LoopProcess(t) \/ LoopFinal(t) \/ LoopFinish(t) \/ LoopClear(t)
          \/ LoopShutdown(t) \/ LoopExit(t) \/ JobDone(t)

SpecRunner == InitRunner /\ [][NextRunner]_vars

(* The same runner with two threads of the application calling it.         *)
InitRunnerRace ==
    /\ ScanOff
    /\ call = NoRow /\ ret = NoRow
    /\ module_globals = NoRow /\ invocations = NoRow /\ overlapped = FALSE
    /\ sim = NoRow
    /\ \E a \in ConstructorArgs :
          runner = NewRunner([symbol |-> "NIFTY", target_points |-> 1],
                             a.param_ranges, a.max_workers)

SpecRunnerRace == InitRunnerRace /\ [][NextRunner]_vars

(* One caller that only starts and pauses, and pauses only when it can     *)
(* start again; threads and workers that are scheduled keep running, every *)
(* job ends, a call in progress returns and a pause is followed by a       *)
(* start.                                                                  *)
RunnerPauseThenStart(c) == RunnerOn /\ runner.calls + 1 < MaxCalls /\ RunnerPause(c)

RunnerResume(c) == RunnerOn /\ runner.paused /\ RunnerStart(c)

LoopStep(t) ==
    \/ LoopBegin(t) \/ LoopOuter(t) \/ LoopWait(t) \/ LoopInner(t)
    \/ LoopSubmit(t) \/ LoopTrack(t) \/ LoopCheck(t) \/ LoopWaitDone(t)
    \/ LoopProcess(t) \/ LoopFinal(t) \/ LoopFinish(t) \/ LoopClear(t)
    \/ LoopExit(t)

NextRunnerFair ==
    \/ RunnerStart(1) \/ RunnerStartReturn(1)
    \/ RunnerPauseThenStart(1) \/ RunnerPauseReturn(1)
    \/ \E t \in 1..MaxThreads : LoopStep(t) \/ JobDone(t)

SpecRunnerFair ==
    /\ InitRunner
    /\ [][NextRunnerFair]_vars
    /\ \A t \in 1..MaxThreads : WF_vars(LoopStep(t)) /\ WF_vars(JobDone(t))
    /\ WF_vars(RunnerStartReturn(1))
    /\ WF_vars(RunnerPauseReturn(1))
    /\ WF_vars(RunnerResume(1))

(* ======================= claims ======================= *)

LastTrade == results[Len(results)]

(* C1: every position that is opened yields exactly one trade: when the   *)
(* scan has passed the last bar no position is left open and the ledger   *)
(* holds one trade per opened position (the last one closed with reason   *)
(* "End of Data" at the last bar's close).                                *)
C1_EveryPositionYieldsATrade ==
    pc = "done" => (~in_position /\ Len(results) = opened)

(* C2: a trade that exits with Target Hit or Stoploss Hit exits exactly at *)
(* the position's target or stop level, and that level lies within         *)
(* [low, high] of the exit bar.                                            *)
C2_ExitLevelInsideBar ==
    (last # NoRow /\ last.exited
        /\ LastTrade.trade.exit_reason \in {"Target Hit", "Stoploss Hit"})
    => /\ LastTrade.trade.exit =
            (IF LastTrade.trade.exit_reason = "Target Hit" THEN last.tp ELSE last.sl)
       /\ last.bar.low <= LastTrade.trade.exit
       /\ LastTrade.trade.exit <= last.bar.high

(* C3: the entry bar is the bar right after the signal bar, the entry     *)
(* price is that bar's open and the entry time its timestamp, for the     *)
(* open position and for every trade of the ledger; no position is opened *)
(* on a signal that has no next bar.                                      *)
C3_EntryAtNextBarOpen ==
    /\ in_position =>
        /\ entry_bar # NoRow
        /\ sig_idx >= 1
        /\ entry_idx = sig_idx + 1
        /\ entry_price = entry_bar.open
        /\ entry_time = entry_bar.ts
    /\ \A k \in 1..Len(results) :
        /\ results[k].entry_bar # NoRow
        /\ results[k].entry_idx = results[k].sig_idx + 1
        /\ results[k].trade.entry = results[k].entry_bar.open
        /\ results[k].trade.entry_time = results[k].entry_bar.ts

C3_Witness ==
    /\ results # <<>>
    /\ LastTrade.entry_idx = LastTrade.sig_idx + 1
    /\ LastTrade.trade.entry = LastTrade.entry_bar.open
    /\ LastTrade.exit_idx > LastTrade.entry_idx

(* C4: once a date is stopped, nothing is entered on that date at or      *)
(* after the bar whose exit set the stop: neither the open position nor   *)
(* any trade of the ledger has such an entry.                             *)
EntersAfterStop(e_time, e_idx) ==
    /\ e_time.date \in loss_stopped_days
    /\ e_idx >= stop_idx[e_time.date]

C4_NoEntryAfterStop ==
    /\ in_position => ~EntersAfterStop(entry_time, entry_idx)
    /\ \A k \in 1..Len(results) :
        ~EntersAfterStop(results[k].trade.entry_time, results[k].entry_idx)

C4_Witness ==
    /\ blocked
    /\ \E d \in loss_stopped_days : stop_idx[d] < i - 1

(* C9: in position at a scanned bar, an exit the resolver reports is the   *)
(* outcome even when the bar also meets the square-off condition; when it  *)
(* reports none, the trade is closed at the bar's close with reason        *)
(* "Square-off EOD" exactly when enable_eod_square_off is set and the bar  *)
(* is the last of its date or at or past square_off_time; otherwise the    *)
(* position stays open.                                                    *)
Touched(l) ==
    IF l.side = "LONG"
    THEN l.bar.high >= l.tp \/ l.bar.low <= l.sl
    ELSE l.bar.low <= l.tp \/ l.bar.high >= l.sl

SquareOffDue(l) ==
    /\ cfg.enable_eod_square_off
    /\ \/ l.nb = NoRow
       \/ l.nb.ts.date # l.bar.ts.date
       \/ l.bar.ts.time >= cfg.square_off_time

C9_ExitPrecedence ==
    last # NoRow =>
        IF Touched(last)
        THEN /\ last.exited
             /\ LastTrade.exit_idx = last.idx
             /\ LastTrade.trade.exit_reason \in {"Target Hit", "Stoploss Hit"}
             /\ LastTrade.trade.exit \in {last.tp, last.sl}
        ELSE IF SquareOffDue(last)
        THEN /\ last.exited
             /\ LastTrade.exit_idx = last.idx
             /\ LastTrade.trade.exit_reason = "Square-off EOD"
             /\ LastTrade.trade.exit = last.bar.close
             /\ ~in_position
        ELSE /\ ~last.exited
             /\ in_position
             /\ side = last.side /\ tp_level = last.tp /\ sl_level = last.sl
             /\ \A k \in 1..Len(results) : results[k].exit_idx # last.idx

(* a bar that touches a level and also meets the square-off condition *)
C9_Witness ==
    /\ last # NoRow
    /\ Touched(last) /\ SquareOffDue(last)
    /\ last.bar.close \notin {last.tp, last.sl}
    /\ LastTrade.trade.exit_reason \in {"Target Hit", "Stoploss Hit"}

(* C10: with enable_eod_square_off set no position is carried past the    *)
(* last bar of the date it was entered on: every trade exits on the date  *)
(* of its entry.                                                          *)
C10_ExitOnEntryDate ==
    cfg.enable_eod_square_off =>
        \A k \in 1..Len(results) :
            results[k].trade.exit_time.date = results[k].trade.entry_time.date

(* C7: under the policies worst, bull and bear the resolver returns: no   *)
(* exit when neither level is touched; the exit at the one level touched, *)
(* with its reason, when exactly one is; and when both are touched,       *)
(* Stoploss Hit under worst, under bull for a LONG and under bear for a   *)
(* SHORT, Target Hit under bull for a SHORT and under bear for a LONG.    *)
TargetTouched(k) ==
    IF k.position = "LONG" THEN k.bar.high >= k.tp ELSE k.bar.low <= k.tp

StopTouched(k) ==
    IF k.position = "LONG" THEN k.bar.low <= k.sl ELSE k.bar.high >= k.sl

StopFirst(policy, position) ==
    \/ policy = "worst"
    \/ policy = "bull" /\ position = "LONG"
    \/ policy = "bear" /\ position = "SHORT"

ReferenceExit(policy, k) ==
    IF ~TargetTouched(k) /\ ~StopTouched(k) THEN NoExit
    ELSE IF TargetTouched(k) /\ ~StopTouched(k) THEN ExitAt(k.tp, "Target Hit")
    ELSE IF StopTouched(k) /\ ~TargetTouched(k) THEN ExitAt(k.sl, "Stoploss Hit")
    ELSE IF StopFirst(policy, k.position) THEN ExitAt(k.sl, "Stoploss Hit")
    ELSE ExitAt(k.tp, "Target Hit")

C7_ResolverEqualsReference ==
    (ret # NoRow /\ call.self.exit_bar_path \in {"worst", "bull", "bear"})
        => ret = ReferenceExit(call.self.exit_bar_path, call)

(* LONG, target 110, stop 98, bar low 97 / high 112, under bull. *)
C7_Witness ==
    /\ ret # NoRow
    /\ call.self.exit_bar_path = "bull" /\ call.position = "LONG"
    /\ call.tp = 110 /\ call.sl = 98
    /\ call.bar.low = 97 /\ call.bar.high = 112
    /\ ret = ExitAt(98, "Stoploss Hit")

(* C8: under the policy color a bar on which both levels are touched is   *)
(* resolved with bull ordering when close >= open (LONG Stoploss Hit,     *)
(* SHORT Target Hit) and with bear ordering when close < open (LONG       *)
(* Target Hit, SHORT Stoploss Hit).                                       *)
C8_ColorOrdering ==
    (/\ ret # NoRow
     /\ call.self.exit_bar_path = "color"
     /\ TargetTouched(call) /\ StopTouched(call))
        => ret = ReferenceExit(IF call.bar.close >= call.bar.open THEN "bull" ELSE "bear",
                               call)

(* Both levels touched on a bar that closes where it opened. *)
C8_Witness ==
    /\ ret # NoRow
    /\ call.self.exit_bar_path = "color"
    /\ TargetTouched(call) /\ StopTouched(call)
    /\ call.tp # call.sl
    /\ call.bar.close = call.bar.open
    /\ call.position = "LONG"
    /\ ret.reason = "Stoploss Hit"

(* What run_backtest_from_config returns for a request in a process that *)
(* has served no other request.                                           *)
RunAlone(request) ==
    LET g == apply_config(ModuleDefaults, request)
        loaded == [g EXCEPT !.df = compute_indicators(g, load_data_from_db(g.symbol))]
        trades == tag_symbol(run_backtest(loaded), g.symbol)
    IN  [trades |-> trades, summary |-> summarize_trades(loaded, trades)]

Returned(t) ==
    [trades |-> invocations[t].trades, summary |-> invocations[t].summary]

(* C5: when the invocations run one after the other, each returns the     *)
(* trades and summary it returns when run alone, whatever the earlier     *)
(* one's config and whichever keys the later one's config omits.          *)
C5_SequentialEqualsAlone ==
    \A t \in Calls :
        (invocations # NoRow /\ ~overlapped /\ invocations[t].pc = "done")
            => Returned(t) = RunAlone(invocations[t].cfg)

(* C6: two invocations whose configs name every key return, under every   *)
(* interleaving of their steps, the trades and summary each returns when  *)
(* run alone.                                                             *)
C6_ConcurrentEqualsAlone ==
    \A t \in Calls :
        (/\ invocations # NoRow
         /\ \A u \in Calls : DOMAIN invocations[u].cfg = RequestKeys
         /\ invocations[t].pc = "done")
            => Returned(t) = RunAlone(invocations[t].cfg)

(* C11: in a single-symbol ledger trades never overlap: each trade's     *)
(* entry bar index is >= the exit bar index of the trade before it, and   *)
(* equal only when that trade is a "Forced Exit (New Entry)" replaced on  *)
(* the same bar.                                                          *)
C11_TradesNeverOverlap ==
    sim # NoRow =>
        \A k \in 2..Len(sim.trades) :
            /\ sim.trades[k].entry_idx >= sim.trades[k - 1].exit_idx
            /\ (sim.trades[k].entry_idx = sim.trades[k - 1].exit_idx
                    => sim.trades[k - 1].exit_reason = "Forced Exit (New Entry)")


(* C12: scalp_signal at bar i returns no signal if i < 1, if the bar's     *)
(* time lies in no session window (both bounds inclusive) or if atr[i] is  *)
(* undefined or below atr_min_points; otherwise LONG if high[i] >          *)
(* high[i-1], ema_fast[i] > ema_slow[i] and trade_direction is both or     *)
(* long_only; otherwise SHORT if low[i] < low[i-1], ema_fast[i] <          *)
(* ema_slow[i] and trade_direction is both or short_only; otherwise no     *)
(* signal.  A long_only call therefore never returns SHORT and a           *)
(* short_only call never LONG.                                             *)
InSomeWindow(k) ==
    \E w \in 1..Len(k.self.session_windows) :
        /\ k.curr.ts.time >= k.self.session_windows[w][1]
        /\ k.curr.ts.time <= k.self.session_windows[w][2]

SignalGated(k) ==
    \/ k.i < 1
    \/ ~InSomeWindow(k)
    \/ k.curr.atr = NaN
    \/ k.curr.atr < k.self.atr_min_points

LongCondition(k) ==
    /\ k.curr.high > k.prev.high
    /\ k.curr.ema_fast > k.curr.ema_slow
    /\ k.self.trade_direction \in {"both", "long_only"}

ShortCondition(k) ==
    /\ k.curr.low < k.prev.low
    /\ k.curr.ema_fast < k.curr.ema_slow
    /\ k.self.trade_direction \in {"both", "short_only"}

C12_SignalDetector ==
    (call # NoRow /\ ret # NoRow /\ "signal" \in DOMAIN ret) =>
        /\ SignalGated(call) => ret.signal = NoSide
        /\ (~SignalGated(call) /\ LongCondition(call)) => ret.signal = "LONG"
        /\ (~SignalGated(call) /\ ~LongCondition(call) /\ ShortCondition(call))
               => ret.signal = "SHORT"
        /\ (~SignalGated(call) /\ ~LongCondition(call) /\ ~ShortCondition(call))
               => ret.signal = NoSide
        /\ call.self.trade_direction = "long_only" => ret.signal # "SHORT"
        /\ call.self.trade_direction = "short_only" => ret.signal # "LONG"

(* A bar stamped on the closing bound of its only window gives a signal.   *)
C12_Witness ==
    /\ call # NoRow /\ ret # NoRow /\ "signal" \in DOMAIN ret
    /\ call.self.session_windows = << <<1, 1>> >>
    /\ call.curr.ts.time = 1
    /\ ret.signal = "LONG"

(* C13 (as stated): a config with non-positive stoploss_points is accepted *)
(* without raising and no trade of its run exits with Stoploss Hit.        *)
NoStoplossHit ==
    /\ \A k \in 1..Len(results) : results[k].trade.exit_reason # "Stoploss Hit"
    /\ sim # NoRow => \A k \in 1..Len(sim.trades) :
                          sim.trades[k].exit_reason # "Stoploss Hit"

NothingToReport(out) ==
    /\ out.trades = << >>
    /\ out.summary = NoRow
    /\ out.daily_stats = << >>
    /\ "message" \in DOMAIN out /\ out.message # ""

C14_NoTradesNoSummary ==
    /\ pc = "done" =>
          /\ output # NoRow
          /\ results = << >> => NothingToReport(output)
          /\ (output.summary # NoRow) <=> (Len(results) >= 1)
    /\ (sim # NoRow /\ sim.pc = "done") =>
          /\ sim.output # NoRow
          /\ sim.trades = << >> => NothingToReport(sim.output)
          /\ (sim.output.summary # NoRow) <=> (Len(sim.trades) >= 1)

(* A scan read three bars or more, accepted no signal and returned.        *)
C14_Witness ==
    /\ pc = "done" /\ i >= 3 /\ results = << >>
    /\ NothingToReport(output)

(* C15: a bar series whose timestamps are not strictly increasing is       *)
(* signalled to the caller as a precondition failure: the engine never     *)
(* scans such a series to its end and returns trades.                      *)
C15_UnorderedSeriesRejected ==
    sim # NoRow =>
        ~(sim.disordered /\ sim.pc = "done" /\ sim.output.trades # << >>)

(* C16 (as stated): every trade of every engine has gross = (exit - entry  *)
(* for LONG, entry - exit for SHORT) x quantity, costs = 2 x               *)
(* brokerage_per_trade + 2 x slippage x quantity and net = gross - costs.  *)
SignedMove(t) == IF t.side = "LONG" THEN t.exit - t.entry ELSE t.entry - t.exit

SignalTradeArithmetic(t) ==
    /\ t.gross_rupees = SignedMove(t) * cfg.qty_per_point
    /\ t.costs_rupees = (2 * cfg.brokerage_per_trade)
                          + (2 * cfg.slippage_points * cfg.qty_per_point)
    /\ t.pnl_rupees = t.gross_rupees - t.costs_rupees

CadenceQuantity == sim.params.qty_per_point * sim.params.quantity_multiplier

C16_CostsTwoLegsEverywhere ==
    /\ \A k \in 1..Len(results) : SignalTradeArithmetic(results[k].trade)
    /\ sim # NoRow =>
          \A k \in 1..Len(sim.trades) :
              LET t == sim.trades[k]
              IN  /\ t.gross_rupees = SignedMove(t) * CadenceQuantity
                  /\ t.costs_rupees = (2 * sim.params.brokerage_per_trade)
                                        + (2 * sim.params.slippage_rupees * CadenceQuantity)
                  /\ t.pnl_rupees = t.gross_rupees - t.costs_rupees

(* C16 (amended): every trade has gross = (exit - entry for LONG, entry -  *)
(* exit for SHORT) x quantity and net = gross - costs, and the costs are   *)
(* the same for every trade of a run: 2 x brokerage_per_trade + 2 x        *)
(* slippage_points x qty_per_point in the signal engine, and (2 x          *)
(* brokerage_per_trade + slippage_rupees) x quantity_multiplier in the     *)
(* cadence engines.                                                        *)
C16_CostsPerEngine ==
    /\ \A k \in 1..Len(results) : SignalTradeArithmetic(results[k].trade)
    /\ sim # NoRow =>
          \A k \in 1..Len(sim.trades) :
              LET t == sim.trades[k]
              IN  /\ t.gross_rupees = SignedMove(t) * CadenceQuantity
                  /\ t.costs_rupees = ((2 * sim.params.brokerage_per_trade)
                                         + sim.params.slippage_rupees)
                                        * sim.params.quantity_multiplier
                  /\ t.pnl_rupees = t.gross_rupees - t.costs_rupees

(* A cadence run with brokerage 1 and quantity multiplier 2 charged 4 on   *)
(* a trade closed at the end of its bar.                                   *)
C16_Witness ==
    /\ sim # NoRow
    /\ sim.params.brokerage_per_trade = 1 /\ sim.params.quantity_multiplier = 2
    /\ \E k \in 1..Len(sim.trades) :
          /\ sim.trades[k].costs_rupees = 4
          /\ sim.trades[k].exit_reason = "Close @ Bar End"

(* C17: in a cadence engine with wait_for_exit disabled, a cadence trigger *)
(* at a bar while a position is open closes that position at the bar's    *)
(* open with reason "Forced Exit (New Entry)", appends its trade, and then *)
(* opens the replacement at the same open; with wait_for_exit enabled a    *)
(* trigger while a position is open opens nothing and closes nothing.      *)
(* (ev records the iteration just run: the position still open when the    *)
(* entry is decided, and whether the cadence count and the entry fired.)   *)
ForcedOut(ev) ==
    /\ Len(sim.trades) = ev.trades_before + 1
    /\ LET t == sim.trades[Len(sim.trades)]
       IN  /\ t.exit_reason = "Forced Exit (New Entry)"
           /\ t.entry = ev.held_at_trigger.entry_price
           /\ t.entry_idx = ev.held_at_trigger.entry_idx
           /\ t.exit = ev.row.open
           /\ t.exit_idx = ev.idx
           /\ sim.open_position # NoRow
           /\ sim.open_position.entry_price = t.exit
           /\ sim.open_position.entry_idx = ev.idx

C17_ForcedExitBeforeReplacement ==
    (sim # NoRow /\ sim.ev # NoRow) =>
        /\ (~sim.params.wait_for_exit /\ sim.ev.trigger /\ sim.ev.held_at_trigger # NoRow)
              => ForcedOut(sim.ev)
        /\ (sim.params.wait_for_exit /\ sim.ev.cadence /\ sim.ev.held_at_trigger # NoRow)
              => /\ sim.open_position = sim.ev.held_at_trigger
                 /\ Len(sim.trades) = sim.ev.trades_before
                 /\ ~sim.pending_signal

(* The live-aligned engine replaced a position it held: forced out at the  *)
(* open of the bar on which the next entry was due.                        *)
C17_Witness ==
    /\ sim # NoRow /\ sim.ev # NoRow
    /\ sim.engine = "random_scalp_live"
    /\ ~sim.params.wait_for_exit /\ sim.ev.trigger /\ sim.ev.held_at_trigger # NoRow
    /\ sim.ev.row.open # sim.ev.row.close

(* C18: the exit check of the cadence engines has no path ambiguity: on a  *)
(* bar whose high reaches entry + profit_target the trade exits at exactly *)
(* entry + profit_target with Target Hit, even if the low reaches entry -  *)
(* stop_loss as well; Stoploss Hit is produced only when the target was    *)
(* not reached, and never when stop_loss is 0.                             *)
TargetOf(ev) == ev.held.entry_price + sim.params.profit_target_rupees

StopOf(ev) == ev.held.entry_price - sim.params.stop_loss_rupees

C18_TargetBeforeStop ==
    sim # NoRow =>
        /\ (sim.ev # NoRow /\ sim.ev.held # NoRow) =>
              LET ev == sim.ev
                  t == sim.trades[ev.trades_before + 1]
              IN  /\ ev.row.high >= TargetOf(ev) =>
                        /\ Len(sim.trades) > ev.trades_before
                        /\ t.exit_reason = "Target Hit"
                        /\ t.exit = TargetOf(ev)
                        /\ t.entry_idx = ev.held.entry_idx
                  /\ ev.exit.reason = "Stoploss Hit" =>
                        /\ ev.row.high < TargetOf(ev)
                        /\ ev.row.low <= StopOf(ev)
                        /\ t.exit_reason = "Stoploss Hit"
                        /\ t.exit = StopOf(ev)
        /\ sim.params.stop_loss_rupees = 0 =>
              \A k \in 1..Len(sim.trades) : sim.trades[k].exit_reason # "Stoploss Hit"

(* A held position met a bar that reached its target and its stop, and    *)
(* left at the target.                                                     *)
C18_Witness ==
    /\ sim # NoRow /\ sim.ev # NoRow /\ sim.ev.held # NoRow
    /\ sim.params.stop_loss_rupees > 0
    /\ sim.ev.row.high >= TargetOf(sim.ev)
    /\ sim.ev.row.low <= StopOf(sim.ev)
    /\ sim.trades[sim.ev.trades_before + 1].exit_reason = "Target Hit"

(* C19: the summary of a non-empty ledger has total_trades = wins + losses *)
(* + flats (wins: net > 0, losses: net < 0, flats: net = 0), net_rupees =  *)
(* gross_rupees - costs_rupees, and final_equity = starting_capital + the  *)
(* sum of the trades' net P&L.                                             *)
NetOf(trades, k) == trades[k].gross_rupees - trades[k].costs_rupees

RECURSIVE NetSum(_, _)
NetSum(trades, k) == IF k = 0 THEN 0 ELSE NetSum(trades, k - 1) + NetOf(trades, k)

SummaryAddsUp(sm, trades, capital) ==
    /\ sm.total_trades = Len(trades)
    /\ sm.wins = Cardinality({ k \in 1..Len(trades) : NetOf(trades, k) > 0 })
    /\ sm.losses = Cardinality({ k \in 1..Len(trades) : NetOf(trades, k) < 0 })
    /\ sm.flats = Cardinality({ k \in 1..Len(trades) : NetOf(trades, k) = 0 })
    /\ sm.total_trades = sm.wins + sm.losses + sm.flats
    /\ sm.net_rupees = sm.gross_rupees - sm.costs_rupees
    /\ sm.final_equity = capital + NetSum(trades, Len(trades))

C19_SummaryInvariants ==
    /\ (pc = "done" /\ results # << >>) =>
          SummaryAddsUp(output.summary, output.trades, cfg.starting_capital)
    /\ (sim # NoRow /\ sim.pc = "done" /\ sim.trades # << >>) =>
          SummaryAddsUp(sim.output.summary, sim.output.trades, sim.params.starting_capital)

(* A finished run whose ledger holds a winner, a loser and a flat trade.   *)
C19_Witness ==
    /\ sim # NoRow /\ sim.pc = "done" /\ sim.trades # << >>
    /\ sim.output.summary.wins >= 1
    /\ sim.output.summary.losses >= 1
    /\ sim.output.summary.flats >= 1

(* C20 (as stated): max_drawdown is the peak minus the trough of the       *)
(* cumulative net-P&L series: the largest amount by which the running      *)
(* cumulative P&L falls below its running peak, in ledger order.           *)
RunningPeak(trades, k) ==
    LET sums == { NetSum(trades, j) : j \in 1..k }
    IN  CHOOSE m \in sums : \A s \in sums : s <= m

LargestFall(trades) ==
    LET falls == { RunningPeak(trades, k) - NetSum(trades, k) : k \in 1..Len(trades) }
    IN  CHOOSE f \in falls : \A g \in falls : g <= f

C20_DrawdownIsPeakMinusTrough ==
    /\ (pc = "done" /\ results # << >>) =>
          output.summary.max_drawdown = LargestFall(output.trades)
    /\ (sim # NoRow /\ sim.pc = "done" /\ sim.trades # << >>) =>
          sim.output.summary.max_drawdown = LargestFall(sim.output.trades)

(* C20 (amended): max_drawdown is the trough minus the peak of the         *)
(* cumulative net-P&L series: the negative of the largest amount by which  *)
(* the running cumulative P&L falls below its running peak, in ledger      *)
(* order (0 when it never falls).                                          *)
C20_DrawdownIsTroughMinusPeak ==
    /\ (pc = "done" /\ results # << >>) =>
          output.summary.max_drawdown = 0 - LargestFall(output.trades)
    /\ (sim # NoRow /\ sim.pc = "done" /\ sim.trades # << >>) =>
          sim.output.summary.max_drawdown = 0 - LargestFall(sim.output.trades)

(* A ledger that opens with a loss, recovers and falls again: the fall is  *)
(* measured from the peak of the series, not from the starting capital.    *)
C20_Witness ==
    /\ sim # NoRow /\ sim.pc = "done" /\ Len(sim.trades) >= 3
    /\ sim.trades[1].pnl_rupees < 0
    /\ sim.trades[2].pnl_rupees > 0
    /\ sim.trades[3].pnl_rupees < 0
    /\ sim.output.summary.max_drawdown = -1

(* C21: the daily breakdown has exactly one row per distinct exit date of  *)
(* the ledger, in ascending date order; each row's trades, wins, losses,   *)
(* net, profit and loss are computed over the trades exiting on that date, *)
(* with net_pnl = profit + loss; over all rows the trade counts sum to     *)
(* total_trades and the net_pnl values to the summary's net_rupees.        *)
SignalExitDate(t) == t.exit_time.date

CadenceExitDate(t) == t.exit_time \div 2

ExitingOn(trades, ExitDate(_), d) == { k \in 1..Len(trades) : ExitDate(trades[k]) = d }

RECURSIVE PnlOver(_, _)
PnlOver(trades, ks) ==
    IF ks = {} THEN 0
    ELSE LET k == CHOOSE x \in ks : TRUE
         IN  trades[k].pnl_rupees + PnlOver(trades, ks \ {k})

RECURSIVE FieldTotal(_, _, _)
FieldTotal(stats, field, n) ==
    IF n = 0 THEN 0 ELSE FieldTotal(stats, field, n - 1) + stats[n][field]

BreakdownAddsUp(out, ExitDate(_)) ==
    LET stats == out.daily_stats
        trades == out.trades
    IN  /\ { stats[n].date : n \in 1..Len(stats) }
             = { ExitDate(trades[k]) : k \in 1..Len(trades) }
        /\ \A n \in 1..Len(stats) : \A m \in 1..Len(stats) :
               n < m => stats[n].date < stats[m].date
        /\ \A n \in 1..Len(stats) :
               LET on == ExitingOn(trades, ExitDate, stats[n].date)
                   won == { k \in on : trades[k].pnl_rupees > 0 }
                   lost == { k \in on : trades[k].pnl_rupees < 0 }
               IN  /\ stats[n].trades = Cardinality(on)
                   /\ stats[n].wins = Cardinality(won)
                   /\ stats[n].losses = Cardinality(lost)
                   /\ stats[n].net_pnl = PnlOver(trades, on)
                   /\ stats[n].profit = PnlOver(trades, won)
                   /\ stats[n].loss = PnlOver(trades, lost)
                   /\ stats[n].net_pnl = stats[n].profit + stats[n].loss
        /\ FieldTotal(stats, "trades", Len(stats)) = out.summary.total_trades
        /\ FieldTotal(stats, "net_pnl", Len(stats)) = out.summary.net_rupees

C21_DailyBreakdown ==
    /\ (pc = "done" /\ results # << >>) => BreakdownAddsUp(output, SignalExitDate)
    /\ (sim # NoRow /\ sim.pc = "done" /\ sim.trades # << >>)
           => BreakdownAddsUp(sim.output, CadenceExitDate)

(* A ledger over two exit dates, one of them with a winner and a loser,    *)
(* and a trade that exits on the date after its entry.                     *)
C21_Witness ==
    /\ sim # NoRow /\ sim.pc = "done"
    /\ Len(sim.output.daily_stats) >= 2
    /\ \E n \in 1..Len(sim.output.daily_stats) :
          sim.output.daily_stats[n].wins >= 1 /\ sim.output.daily_stats[n].losses >= 1
    /\ \E k \in 1..Len(sim.trades) :
          sim.trades[k].entry_time \div 2 < sim.trades[k].exit_time \div 2

(* C22: the indicator engine yields TR[0] = high[0] - low[0] and, for t >= *)
(* 1, TR[t] = max(high[t] - low[t], |high[t] - close[t-1]|, |low[t] -      *)
(* close[t-1]|); ATR[t] is undefined exactly for t < atr_window - 1 and    *)
(* otherwise the simple mean of TR over the last atr_window bars.          *)
Largest(S) == CHOOSE m \in S : \A x \in S : x <= m

Magnitude(x) == IF x < 0 THEN 0 - x ELSE x

WilderTR(f, t) ==
    IF t = 0 THEN f[1].high - f[1].low
    ELSE Largest({ f[t + 1].high - f[t + 1].low,
                   Magnitude(f[t + 1].high - f[t].close),
                   Magnitude(f[t + 1].low - f[t].close) })

RECURSIVE WilderSum(_, _, _)
WilderSum(f, t, n) == IF n = 0 THEN 0 ELSE WilderTR(f, t) + WilderSum(f, t - 1, n - 1)

C22_TrueRangeAndAtr ==
    (call # NoRow /\ ret # NoRow /\ "df" \in DOMAIN ret) =>
        \A t \in 0..(Len(ret.df) - 1) :
            LET w == call.self.atr_window
            IN  /\ ret.df[t + 1].tr = WilderTR(call.frame, t)
                /\ (ret.df[t + 1].atr = NaN) <=> (t < w - 1)
                /\ t >= w - 1 => ret.df[t + 1].atr = WilderSum(call.frame, t, w) \div w

(* C23: a date's stopped flag is set as soon as that date's cumulative     *)
(* realized net P&L, each trade counted on its exit date, is at or below   *)
(* daily_loss_cap (equality included); once set it is never cleared; and   *)
(* while flat on a stopped date no signal is evaluated, so the bar opens   *)
(* no position.                                                            *)
RECURSIVE DayNet(_, _)
DayNet(d, k) ==
    IF k = 0 THEN 0
    ELSE DayNet(d, k - 1)
         + (IF results[k].trade.exit_time.date = d THEN results[k].trade.pnl_rupees ELSE 0)

CapHits(d) ==
    { k \in 1..Len(results) :
        /\ results[k].trade.exit_time.date = d
        /\ DayNet(d, k) <= cfg.daily_loss_cap }

StoppedWhenCapReached ==
    pc \in {"scan", "done"} =>
        \A d \in Dates :
            /\ daily_pnl[d] = DayNet(d, Len(results))
            /\ d \in loss_stopped_days <=> CapHits(d) # {}
            /\ CapHits(d) # {} =>
                  \E k \in CapHits(d) :
                      /\ \A j \in CapHits(d) : k <= j
                      /\ stop_idx[d] = results[k].exit_idx

StoppedStaysStopped ==
    pc = "scan" =>
        /\ loss_stopped_days \subseteq loss_stopped_days'
        /\ (~in_position /\ nxt # NoRow /\ nxt.ts.date \in loss_stopped_days) =>
              (~in_position' /\ opened' = opened /\ i' = i + 1)

C23_DailyLossStop == []StoppedWhenCapReached /\ [][StoppedStaysStopped]_vars

C23_Witness ==
    \E d \in loss_stopped_days :
        /\ daily_pnl[d] = cfg.daily_loss_cap
        /\ Len(results) = 2
        /\ results[1].trade.exit_time.date = d
        /\ results[1].trade.pnl_rupees > cfg.daily_loss_cap
        /\ results[1].trade.pnl_rupees < 0

(* C24: in the live-aligned cadence engine a signal generated at the close *)
(* of bar N (bar count divisible by trade_every_n_bars, and no open        *)
(* position when wait_for_exit is set) results in an entry at the open of  *)
(* bar N+1 whenever bar N+1 exists, for every trade_every_n_bars >= 1; no  *)
(* entry happens on a bar that is not the successor of a signal bar.       *)
SignalledBefore == sim.ev # NoRow /\ sim.ev.signal /\ sim.ev.more

LiveBarStep ==
    /\ sim # NoRow /\ sim.engine = "random_scalp_live" /\ sim.pc = "loop"
    /\ sim'.ev # NoRow

EntryFollowsSignal ==
    LiveBarStep =>
        /\ SignalledBefore <=> sim'.ev.entered
        /\ sim'.ev.entered =>
              /\ sim'.open_position # NoRow
              /\ sim'.open_position.entry_price = sim'.ev.row.open

C24_SignalEntersNextBar == [][EntryFollowsSignal]_vars

(* C25: after PermutationRunner.pause() has returned, the run loop submits *)
(* no further job to the worker pool until start() is called again (jobs   *)
(* already in flight are not cancelled and run to completion).  Each       *)
(* submission records whether a pause() had returned with no start() or    *)
(* reset() called since.                                                   *)
C25_PauseStopsSubmission ==
    RunnerOn => \A k \in 1..Len(runner.submitted) : ~runner.submitted[k].paused

(* C26: the worker pool is bounded: under every interleaving of start(),   *)
(* pause(), reset() and reconfigure() calls with the run loop, the number  *)
(* of jobs executing at the same time never exceeds max_workers.           *)
RECURSIVE ExecutingIn(_, _)
ExecutingIn(r, t) == IF t = 0 THEN 0 ELSE Executing(r.threads[t]) + ExecutingIn(r, t - 1)

C26_PoolBounded ==
    RunnerOn => ExecutingIn(runner, Len(runner.threads)) <= runner.max_workers

(* C30: at most one run-loop thread of a PermutationRunner is alive at any *)
(* time, under every interleaving of concurrent start(), pause() and       *)
(* reset() calls, a start() that runs between the join and the final state *)
(* clearing of reset() included.                                           *)
AliveThreads(r) == { t \in 1..Len(r.threads) : is_alive(r, t) }

C30_OneRunLoopThread == RunnerOn => Cardinality(AliveThreads(runner)) <= 1

(* C27: reconfigure() called while the runner is active (running, or       *)
(* paused with its run-loop thread still alive) raises RuntimeError and    *)
(* leaves base_config, param_ranges, max_workers, the job list, the job    *)
(* index and the completed count unchanged; called on a stopped runner     *)
(* with new param_ranges it regenerates the job list and resets index and  *)
(* completed count to 0.                                                   *)
RunnerActive(r) == r.running \/ (r.thread # NoThread /\ r.threads[r.thread].pc # "dead")

Configuration(r) ==
    <<r.base_config, r.param_ranges, r.max_workers, r.all_jobs, r.total_jobs,
      r.index, r.completed_count>>

ValuesOf(ranges) ==
    IF ranges.target_points.is_list THEN ranges.target_points.items
    ELSE <<ranges.target_points.item>>

(* job number n (from 0) of the ranges: symbol-major over the values *)
JobNumber(ranges, n) ==
    [strategy_name |-> StrategyName,
     symbol |-> ranges.symbols[(n \div Len(ValuesOf(ranges))) + 1],
     params |-> [target_points |-> ValuesOf(ranges)[(n % Len(ValuesOf(ranges))) + 1]]]

Regenerated(r, ranges) ==
    /\ r.param_ranges = ranges
    /\ r.total_jobs = Len(ranges.symbols) * Len(ValuesOf(ranges))
    /\ Len(r.all_jobs) = r.total_jobs
    /\ \A n \in 0..(r.total_jobs - 1) : r.all_jobs[n + 1] = JobNumber(ranges, n)
    /\ r.index = 0 /\ r.completed_count = 0

ReconfigureStep ==
    /\ RunnerOn
    /\ runner'.reconfigured # NoRow
    /\ runner'.reconfigured.n = runner.calls + 1

ReconfigureGuarded ==
    ReconfigureStep =>
        LET done == runner'.reconfigured
        IN  /\ done.raised <=> RunnerActive(runner)
            /\ done.raised => Configuration(runner') = Configuration(runner)
            /\ (~done.raised /\ done.args.param_ranges # NoArg)
                  => Regenerated(runner', done.args.param_ranges)

C27_ReconfigureGuarded == [][ReconfigureGuarded]_vars

(* reconfigure() has just raised on a paused runner whose run loop had     *)
(* taken a job                                                             *)
C27_Witness ==
    /\ RunnerOn /\ runner.reconfigured # NoRow
    /\ runner.reconfigured.n = runner.calls
    /\ runner.reconfigured.raised
    /\ runner.reconfigured.args.param_ranges # NoArg
    /\ ~runner.running /\ runner.paused /\ runner.index > 0

(* C28: within one run of the PermutationRunner (from a start() on a fresh *)
(* or completed runner until completion, with any number of pause() /      *)
(* start() resumes and no reset()), every generated job is submitted to    *)
(* the pool exactly once, jobs are taken in generation order, and each     *)
(* job's successful result is passed to on_result_callback exactly once;   *)
(* no job is skipped or repeated across a pause/resume.                    *)
NoReset(r) ==
    /\ Len(r.events) = 1
    /\ \A c \in DOMAIN r.callers : r.callers[c].op # "reset"

SubmittedBy(t) == SelectSeq(runner.submitted, LAMBDA e : e.thread = t)

OutcomesOf(t) == SelectSeq(runner.outcomes, LAMBDA e : e.thread = t)

RunCompleted(t) == runner.threads[t].pc \in {"finish", "clear"}

EachJobOnce(t) ==
    LET sub == SubmittedBy(t)
        out == OutcomesOf(t)
    IN  /\ \A k \in 1..Len(sub) : sub[k].index = k - 1
        /\ \A j, k \in 1..Len(out) : j # k => out[j].job # out[k].job
        /\ \A k \in 1..Len(out) :
              /\ \E j \in 1..Len(sub) : sub[j].job = out[k].job
              /\ out[k].ok <=> out[k].callback # NoRow
              /\ out[k].ok => out[k].callback.symbol = out[k].job.symbol
              /\ out[k].ok => out[k].callback.params = out[k].job.params
        /\ is_alive(runner, t) =>
              /\ Len(sub) <= runner.total_jobs
              /\ \A k \in 1..Len(sub) : sub[k].job = runner.all_jobs[k]
        /\ RunCompleted(t) =>
              /\ Len(sub) = runner.total_jobs
              /\ Len(out) = runner.total_jobs

C28_EachJobOnce ==
    (RunnerOn /\ NoReset(runner)) =>
        \A t \in 1..Len(runner.threads) : EachJobOnce(t)

(* a run of two jobs has completed; it was paused and resumed between the  *)
(* two submissions, and both results reached the callback                  *)
C28_Witness ==
    /\ RunnerOn /\ NoReset(runner)
    /\ \E t \in 1..Len(runner.threads) :
          /\ RunCompleted(t)
          /\ Len(SubmittedBy(t)) = 2
          /\ SubmittedBy(t)[1].resumes = 0
          /\ SubmittedBy(t)[2].resumes = 1
          /\ \A k \in 1..2 : OutcomesOf(t)[k].ok

(* C29: liveness: if start() is called on a runner with at least one job,  *)
(* every job terminates, and every pause() is eventually followed by a     *)
(* start() with no reset(), then eventually completed_jobs = total_jobs,   *)
(* no job is in flight, and the runner reports running = false with its    *)
(* run-loop thread finished.                                               *)
RunStarted == RunnerOn /\ runner.total_jobs >= 1 /\ Len(runner.threads) >= 1

RunOver ==
    /\ RunnerOn
    /\ runner.completed_count = runner.total_jobs
    /\ \A t \in 1..Len(runner.threads) :
          runner.threads[t].active = <<>> /\ ~is_alive(runner, t)
    /\ ~status(runner).running

C29_RunCompletes == RunStarted ~> RunOver

(* C31: the runner's reported state matches its real state: whenever       *)
(* status() reports running a run-loop thread is alive, status() never     *)
(* reports running and paused together, and after a run that completed     *)
(* every job with no pause() call (one start() and nothing else) status()  *)
(* reports neither running nor paused.                                     *)
OnlyStarted(r) == r.calls = 1 /\ Len(r.threads) = 1

RanToCompletion(r) ==
    /\ OnlyStarted(r)
    /\ ~is_alive(r, 1)
    /\ r.completed_count = r.total_jobs

C31_ReportedStateIsReal ==
    RunnerOn =>
        /\ status(runner).running => AliveThreads(runner) # {}
        /\ ~(status(runner).running /\ status(runner).paused)
        /\ RanToCompletion(runner) =>
              (~status(runner).running /\ ~status(runner).paused)

(* C32: reset() returns only after the run-loop thread has exited and      *)
(* every in-flight job has finished; when it returns the job index and the *)
(* completed count are 0, there are no current jobs, last_result and       *)
(* last_error are cleared and running is false; and on_result_callback is  *)
(* never invoked for a job submitted before the reset, which needs that no *)
(* future is left with any run loop when reset() returns.                  *)
ResetReturns ==
    /\ RunnerOn
    /\ \E c \in DOMAIN runner.callers :
          /\ runner.callers[c].op = "reset" /\ runner.callers[c].pc = "clear"
          /\ runner'.callers[c].pc = "idle"

NothingLeftRunning(r) ==
    /\ AliveThreads(r) = {}
    /\ \A t \in 1..Len(r.threads) : r.threads[t].active = <<>>

ResetState(r) ==
    /\ r.index = 0 /\ r.completed_count = 0
    /\ r.current_jobs = {}
    /\ r.last_result = NoRow /\ r.last_error = NoRow
    /\ ~r.running

ResetIsComplete == ResetReturns => (NothingLeftRunning(runner') /\ ResetState(runner'))

C32_ResetIsComplete == [][ResetIsComplete]_vars

(* C33: a job that raises does not stop the runner: its exception is       *)
(* recorded in last_error, on_result_callback is not invoked for it, it    *)
(* counts as completed and the run loop goes on; the jobs that remain are  *)
(* all dispatched; and a job that succeeds clears last_error.              *)
JobProcessed ==
    /\ RunnerOn
    /\ Len(runner'.outcomes) = Len(runner.outcomes) + 1

Processed == runner'.outcomes[Len(runner'.outcomes)]

FailureIsRecorded ==
    JobProcessed =>
        /\ runner'.completed_count = runner.completed_count + 1
        /\ runner'.threads[Processed.thread].pc \in {"process", "final"}
        /\ runner'.index = runner.index
        /\ ~Processed.ok =>
              /\ runner'.last_error = [error |-> Processed.job]
              /\ runner'.last_result = runner.last_result
              /\ Processed.callback = NoRow
        /\ Processed.ok => runner'.last_error = NoRow

JobFailedWithJobsLeft ==
    /\ RunnerOn
    /\ runner.index < runner.total_jobs
    /\ \E k \in 1..Len(runner.outcomes) : ~runner.outcomes[k].ok

AllDispatched == RunnerOn /\ runner.index = runner.total_jobs

C33_FailedJobDoesNotStop ==
    /\ [][FailureIsRecorded]_vars
    /\ JobFailedWithJobsLeft ~> AllDispatched

(* the first job of a run raised, the second succeeded and cleared         *)
(* last_error; both count as completed and only the second reached the     *)
(* callback                                                                *)
C33_Witness ==
    /\ RunnerOn /\ Len(runner.outcomes) = 2
    /\ ~runner.outcomes[1].ok /\ runner.outcomes[1].callback = NoRow
    /\ runner.outcomes[2].ok /\ runner.outcomes[2].callback # NoRow
    /\ runner.outcomes[1].job = runner.all_jobs[1]
    /\ runner.outcomes[2].job = runner.all_jobs[2]
    /\ runner.last_error = NoRow
    /\ runner.completed_count = 2

(* C40: in every reachable state of the PermutationRunner, 0 <= completed  *)
(* count <= job index <= total_jobs, and the number of current (in-flight) *)
(* jobs is at most job index - completed count.                            *)
C40_CountersOrdered ==
    RunnerOn =>
        /\ 0 <= runner.completed_count
        /\ runner.completed_count <= runner.index
        /\ runner.index <= runner.total_jobs
        /\ Cardinality(runner.current_jobs) <= runner.index - runner.completed_count


(* ---------- the two copies of the signal-driven engine on one frame ---------- *)

(* BacktestRunner.__init__: the parameters it stores on self for a config  *)
(* that names every strategy key; square_off_time and session_windows are  *)
(* parsed when the config names them and take the class's defaults, 15:25  *)
(* and the one window 09:20-15:05, when it does not.                       *)
BacktestRunner_init(config) ==
    [ target_points |-> config.target_points,
      stoploss_points |-> config.stoploss_points,
      atr_min_points |-> config.atr_min_points,
      daily_loss_cap |-> config.daily_loss_cap,
      exit_bar_path |-> config.exit_bar_path,
      trade_direction |-> config.trade_direction,
      confirm_trend_at_entry |-> config.confirm_trend_at_entry,
      enable_eod_square_off |-> config.enable_eod_square_off,
      square_off_time |->
          IF "square_off_time" \in DOMAIN config
          THEN hhmm(config.square_off_time) ELSE hhmm(<<15, 25>>),
      session_windows |->
          IF "session_windows" \in DOMAIN config
          THEN [n \in 1..Len(config.session_windows) |->
                  <<hhmm(config.session_windows[n].start),
                    hhmm(config.session_windows[n].end)>>]
          ELSE << <<hhmm(<<9, 20>>), hhmm(<<15, 5>>)>> >>,
      starting_capital |-> config.starting_capital,
      qty_per_point |-> config.qty_per_point,
      brokerage_per_trade |-> config.brokerage_per_trade,
      slippage_points |-> config.slippage_points ]

(* One iteration of the while loop of BacktestRunner._run_backtest_on_df   *)
(* from the locals st: row is df.iloc[st.i], pv the high and low of the    *)
(* row before it, nb the row after it (NoRow when i + 1 >= len(df)).       *)
run_backtest_on_df_step(c, st, pv, row, nb) ==
    LET d == row.ts.date
        step == [st EXCEPT !.i = @ + 1]
    IN  IF st.in_position THEN
            LET x == exit_decision(c, st.side, row, nb, st.tp_level, st.sl_level)
                t == make_trade(c, st.side, st.entry_price, st.entry_time, row, x, st.equity)
                day == st.daily_pnl[d] + t.pnl_rupees
            IN  IF x.exited
                THEN [step EXCEPT !.in_position = FALSE, !.side = NoSide,
                                  !.entry_price = None, !.entry_time = NoRow,
                                  !.tp_level = None, !.sl_level = None,
                                  !.results = Append(@, t),
                                  !.equity = t.equity,
                                  !.daily_pnl = [@ EXCEPT ![d] = day],
                                  !.loss_stopped_days =
                                      IF cap_reached(c, day) THEN @ \cup {d} ELSE @]
                ELSE step
        ELSE IF day_stopped(d, st.loss_stopped_days) THEN step
        ELSE
            LET sig == scalp_signal(c, st.i, pv, row)
            IN  IF sig # NoSide /\ ~confirm_fails(c, sig, row) /\ nb # NoRow
                THEN LET fill == entry_fill(row, nb)
                         lv == entry_levels(c, sig, fill.price)
                     IN  [st EXCEPT !.i = @ + 2, !.in_position = TRUE, !.side = sig,
                                    !.entry_price = fill.price,
                                    !.entry_time = fill.time,
                                    !.tp_level = lv.tp, !.sl_level = lv.sl]
                ELSE step

(* backtest_tsdb.decide_exit_this_bar: the module's copy of the resolver,  *)
(* which spells out the worst path and the fall-through case by case.      *)
tsdb_decide_exit_this_bar(g, position, bar, tp, sl) ==
    LET high == bar.high
        low == bar.low
        hit_tp == IF position = "LONG" THEN high >= tp ELSE low <= tp
        hit_sl == IF position = "LONG" THEN low <= sl ELSE high >= sl
        path == bar_path_tuple(g, bar)
        fall_through == IF hit_tp /\ hit_sl THEN ExitAt(sl, "Stoploss Hit")
                        ELSE IF hit_tp THEN ExitAt(tp, "Target Hit")
                        ELSE ExitAt(sl, "Stoploss Hit")
    IN  IF ~hit_tp /\ ~hit_sl THEN NoExit
        ELSE IF path = WorstPath THEN
            IF hit_tp /\ hit_sl THEN ExitAt(sl, "Stoploss Hit")
            ELSE IF hit_tp THEN ExitAt(tp, "Target Hit")
            ELSE ExitAt(sl, "Stoploss Hit")
        ELSE IF position = "LONG" THEN
            IF path = BullPath
            THEN IF low <= sl THEN ExitAt(sl, "Stoploss Hit")
                 ELSE IF high >= tp THEN ExitAt(tp, "Target Hit")
                 ELSE fall_through
            ELSE IF high >= tp THEN ExitAt(tp, "Target Hit")
                 ELSE IF low <= sl THEN ExitAt(sl, "Stoploss Hit")
                 ELSE fall_through
        ELSE
            IF path = BullPath
            THEN IF low <= tp THEN ExitAt(tp, "Target Hit")
                 ELSE IF high >= sl THEN ExitAt(sl, "Stoploss Hit")
                 ELSE fall_through
            ELSE IF high >= sl THEN ExitAt(sl, "Stoploss Hit")
                 ELSE IF low <= tp THEN ExitAt(tp, "Target Hit")
                 ELSE fall_through

(* One iteration of the while loop of backtest_tsdb.run_backtest: the      *)
(* resolver's exit and the square-off are two branches that each close     *)
(* the trade with the same statements (Closed), and the trend check at     *)
(* entry is two tests.                                                     *)
run_backtest_step(g, st, pv, row, nb) ==
    LET d == row.ts.date
        step == [st EXCEPT !.i = @ + 1]
        Closed(exit_px, reason) ==
            LET pnl_points == IF st.side = "LONG" THEN exit_px - st.entry_price
                              ELSE st.entry_price - exit_px
                gross_rupees == pnl_points * g.qty_per_point
                slippage_rupee == g.slippage_points * g.qty_per_point * 2
                fees_rupee == 2 * g.brokerage_per_trade
                costs_rupees == slippage_rupee + fees_rupee
                pnl_rupees == gross_rupees - costs_rupees
                day == st.daily_pnl[d] + pnl_rupees
            IN  [step EXCEPT
                    !.equity = @ + pnl_rupees,
                    !.daily_pnl = [@ EXCEPT ![d] = day],
                    !.loss_stopped_days = IF day <= g.daily_loss_cap THEN @ \cup {d} ELSE @,
                    !.results = Append(@,
                        [entry_time |-> st.entry_time, exit_time |-> row.ts,
                         side |-> st.side, entry |-> st.entry_price, exit |-> exit_px,
                         pnl_points |-> pnl_points, gross_rupees |-> gross_rupees,
                         costs_rupees |-> costs_rupees, pnl_rupees |-> pnl_rupees,
                         equity |-> st.equity + pnl_rupees, exit_reason |-> reason]),
                    !.in_position = FALSE, !.side = NoSide,
                    !.entry_price = None, !.entry_time = NoRow,
                    !.tp_level = None, !.sl_level = None]
    IN  IF st.in_position THEN
            LET x == tsdb_decide_exit_this_bar(g, st.side, row, st.tp_level, st.sl_level)
            IN  IF x.exited THEN Closed(x.exit_px, x.reason)
                ELSE IF g.enable_eod_square_off
                        /\ (is_last_bar_of_day(row, nb) \/ past_square_off_time(g, row.ts))
                THEN Closed(row.close, "Square-off EOD")
                ELSE step
        ELSE IF d \notin st.loss_stopped_days THEN
            LET sig == scalp_signal(g, st.i, pv, row)
            IN  IF sig = NoSide THEN step
                ELSE IF g.confirm_trend_at_entry /\ sig = "LONG" /\ ~trend_up(row) THEN step
                ELSE IF g.confirm_trend_at_entry /\ sig = "SHORT" /\ ~trend_down(row) THEN step
                ELSE IF nb # NoRow
                THEN LET entry == nb.open
                     IN  [st EXCEPT
                            !.in_position = TRUE, !.side = sig,
                            !.entry_price = entry, !.entry_time = nb.ts,
                            !.tp_level = IF sig = "LONG" THEN entry + g.target_points
                                         ELSE entry - g.target_points,
                            !.sl_level = IF sig = "LONG" THEN entry - g.stoploss_points
                                         ELSE entry + g.stoploss_points,
                            !.i = @ + 2]
                ELSE step
        ELSE step

(* The configs handed to both copies: every strategy key named, the        *)
(* session windows and the square-off time named or left out, as the       *)
(* request model of the API leaves them out when the client sends none.    *)
CopyKeys ==
    [ target_points |-> 1,
      stoploss_points |-> 1,
      atr_min_points |-> 1,
      daily_loss_cap |-> -1,
      exit_bar_path |-> "color",
      trade_direction |-> "both",
      confirm_trend_at_entry |-> TRUE,
      enable_eod_square_off |-> TRUE,
      starting_capital |-> 0,
      qty_per_point |-> 1,
      brokerage_per_trade |-> 0,
      slippage_points |-> 0,
      square_off_time |-> <<15, 25>>,
      session_windows |-> << [start |-> <<9, 20>>, end |-> <<15, 5>>] >> ]

CopyConfigs ==
    { [k \in DOMAIN full \ left_out |-> full[k]] :
        full \in { [CopyKeys EXCEPT !.exit_bar_path = p, !.enable_eod_square_off = e] :
                     p \in Paths, e \in BOOLEAN },
        left_out \in SUBSET {"square_off_time", "session_windows"} }

(* Times of day of the frames, in minutes: 10:00, 11:05 and 15:30.         *)
CopyTimes == {600, 665, 930}

MaxCopyBars == 5

CopyStamps == [date : Dates, time : CopyTimes]

CopyHeads(idx, after) ==
    IF idx >= MaxCopyBars THEN {NoRow}
    ELSE {NoRow} \cup { [open |-> o, ts |-> t] :
                          <<o, t>> \in { x \in Prices \X CopyStamps : Later(x[2], after) } }

(* A BacktestRunner and a fresh backtest_tsdb module given the same config *)
(* and the same frame, each before its first iteration.                    *)
InitCopies ==
    /\ \E config \in CopyConfigs :
          /\ cfg = BacktestRunner_init(config)
          /\ module_globals = apply_config(ModuleDefaults, config)
    /\ pc = "copies"
    /\ i = 1
    /\ \/ prev = NoRow /\ nxt = NoRow
       \/ \E o \in Prices, t \in CopyStamps : \E r \in Rows([open |-> o, ts |-> t]) :
              /\ prev = Cells(r)
              /\ nxt \in CopyHeads(1, t)
    /\ invocations = [on_df |-> run_backtest_locals(cfg),
                      tsdb |-> run_backtest_locals(module_globals)]
    /\ in_position = FALSE /\ side = NoSide
    /\ entry_price = None /\ entry_time = NoRow
    /\ tp_level = None /\ sl_level = None
    /\ sig_idx = None /\ entry_idx = None /\ entry_bar = NoRow
    /\ results = <<>> /\ equity = 0
    /\ daily_pnl = [d \in Dates |-> 0]
    /\ loss_stopped_days = {} /\ stop_idx = [d \in Dates |-> None]
    /\ blocked = FALSE /\ opened = 0 /\ last = NoRow
    /\ call = NoRow /\ ret = NoRow /\ overlapped = FALSE
    /\ output = NoRow /\ sim = NoRow /\ runner = NoRow

(* The indicator cells of row i that the loops read: a loop reads them    *)
(* in scalp_signal and in the trend check, that is when its iteration at  *)
(* i is flat; the cells no loop reads are not drawn.                      *)
IndicatorsRead ==
    IF \E e \in DOMAIN invocations :
          invocations[e].i = i /\ ~invocations[e].in_position
    THEN Indicators
    ELSE { [ema_fast |-> 0, ema_slow |-> 0, atr |-> NaN] }

(* Row i of the frame: the copy whose loop index is i runs one iteration   *)
(* on it, the copy that entered on row i - 1 has stepped over it.          *)
CopiesBar ==
    /\ pc = "copies" /\ nxt # NoRow
    /\ \E cur \in Rows(nxt), ind \in IndicatorsRead, nb \in CopyHeads(i + 1, nxt.ts) :
        LET row == WithIndicators(cur, ind)
        IN  /\ invocations' =
                 [on_df |-> IF invocations.on_df.i = i
                            THEN run_backtest_on_df_step(cfg, invocations.on_df, prev, row, nb)
                            ELSE invocations.on_df,
                  tsdb |-> IF invocations.tsdb.i = i
                           THEN run_backtest_step(module_globals, invocations.tsdb, prev, row, nb)
                           ELSE invocations.tsdb]
            /\ prev' = Cells(cur)
            /\ nxt' = nb
            /\ i' = i + 1
    /\ UNCHANGED <<cfg, pc, posvars, ledgervars, blocked, opened, last, output,
                   resolvervars, module_globals, overlapped, sim, runner>>

(* i >= len(df) in both loops *)
CopiesEnd ==
    /\ pc = "copies" /\ nxt = NoRow
    /\ pc' = "done"
    /\ UNCHANGED <<cfg, i, prev, nxt, posvars, ledgervars, blocked, opened, last, output,
                   resolvervars, globalvars, sim, runner>>

NextCopies == CopiesBar \/ CopiesEnd

SpecCopies == InitCopies /\ [][NextCopies]_vars

(* The two copies hold the same session windows and square-off time.      *)
SameParameters ==
    /\ cfg.session_windows = module_globals.session_windows
    /\ cfg.square_off_time = module_globals.square_off_time

(* C34: handed the same config and the same bars, the class-based loop and *)
(* the module-level loop have emitted the same trades: the two ledgers     *)
(* are equal once both loops have ended.                                   *)
C34_CopiesEmitSameTrades ==
    (pc = "done" /\ module_globals # NoRow /\ cfg # NoRow)
        => invocations.on_df.results = invocations.tsdb.results

(* When the two copies hold the same parameters their loops end with the  *)
(* same locals, ledger included.                                           *)
SameParametersSameTrades ==
    (pc = "done" /\ module_globals # NoRow /\ cfg # NoRow /\ SameParameters)
        => invocations.on_df = invocations.tsdb


(* C35: the entry bar is never evaluated for an exit and the exit bar     *)
(* never gives a signal: every trade exits at an index of at least its    *)
(* entry index + 1, and the trade after one that exited at index j is     *)
(* entered at an index of at least j + 2.                                  *)
C35_EntryAndExitBarsSkipped ==
    pc \in {"scan", "done"} =>
        \A k \in 1..Len(results) :
            /\ results[k].exit_idx >= results[k].entry_idx + 1
            /\ k > 1 => results[k].entry_idx >= results[k - 1].exit_idx + 2

C35_Witness ==
    /\ pc = "done"
    /\ Len(results) = 2
    /\ results[1].exit_idx = results[1].entry_idx + 1
    /\ results[2].entry_idx = results[1].exit_idx + 2
    /\ results[2].exit_idx = results[2].entry_idx + 1


ExitDate(k) == results[k].trade.exit_time.date

(* daily_pnl of the exit date of ledger row k right after that row        *)
DayNetAfter(k) ==
    LET same == { m \in 1..k : ExitDate(m) = ExitDate(k) }
        sums[S \in SUBSET same] ==
            IF S = {} THEN 0
            ELSE LET m == CHOOSE x \in S : TRUE
                 IN  results[m].trade.pnl_rupees + sums[S \ {m}]
    IN  sums[same]

(* Ledger row k is the trade whose exit marked its date stopped.          *)
MarksDateStopped(k) == stop_idx[ExitDate(k)] = results[k].exit_idx

(* C36: the trade whose exit marks a date stopped is the last trade of    *)
(* the ledger that exits on that date, and the net P&L of a date is at or *)
(* below the cap after at most one of its trades.                         *)
C36_StoppingTradeIsLastOfDate ==
    pc \in {"scan", "done"} =>
        /\ \A k \in 1..Len(results) :
              MarksDateStopped(k) =>
                  \A m \in (k + 1)..Len(results) : ExitDate(m) # ExitDate(k)
        /\ \A d \in Dates :
              Cardinality({ k \in 1..Len(results) :
                              /\ ExitDate(k) = d
                              /\ DayNetAfter(k) <= cfg.daily_loss_cap }) <= 1

C36_Witness ==
    /\ pc = "done"
    /\ Len(results) = 2
    /\ MarksDateStopped(1)
    /\ DayNetAfter(1) <= cfg.daily_loss_cap
    /\ ExitDate(2) # ExitDate(1)


(* The two breakout conditions of scalp_signal on the row curr after pv.  *)
LongBreakout(pv, curr) == curr.high > pv.high /\ trend_up(curr)

ShortBreakout(pv, curr) == curr.low < pv.low /\ trend_down(curr)

(* scalp_signal with the SHORT test written before the LONG test.         *)
scalp_signal_short_first(c, idx, pv, curr) ==
    IF idx < 1 THEN NoSide
    ELSE IF ~in_session(c, curr.ts) \/ ~atr_ok(c, curr) THEN NoSide
    ELSE IF ShortBreakout(pv, curr)
            /\ c.trade_direction \in {"both", "short_only"} THEN "SHORT"
    ELSE IF LongBreakout(pv, curr)
            /\ c.trade_direction \in {"both", "long_only"} THEN "LONG"
    ELSE NoSide

SignalReturned == ret # NoRow /\ "signal" \in DOMAIN ret

(* C37: the LONG and the SHORT condition never hold on the same bar, and  *)
(* the signal scalp_signal returned is the signal it would return with    *)
(* the SHORT test first.                                                   *)
C37_LongAndShortExclusive ==
    SignalReturned =>
        /\ call.i >= 1 => ~(LongBreakout(call.prev, call.curr)
                            /\ ShortBreakout(call.prev, call.curr))
        /\ ret.signal = scalp_signal_short_first(call.self, call.i, call.prev, call.curr)

(* a bar that breaks out above and below the previous bar, in session,    *)
(* either side allowed: the trend decides                                  *)
C37_Witness ==
    /\ SignalReturned
    /\ call.i >= 1
    /\ call.curr.high > call.prev.high
    /\ call.curr.low < call.prev.low
    /\ call.self.trade_direction = "both"
    /\ ret.signal = "SHORT"


(* ---------- confirm_trend_at_entry on and off, on one frame ---------- *)

(* The runner built with cfg, confirm_trend_at_entry = false in its       *)
(* config.                                                                 *)
Unconfirmed(c) == [c EXCEPT !.confirm_trend_at_entry = FALSE]

(* Two BacktestRunners, built with a config that sets                     *)
(* confirm_trend_at_entry and with the same config without it, each       *)
(* before the first iteration of its loop on the same frame.              *)
InitConfirm ==
    /\ cfg \in { c \in Configs : c.confirm_trend_at_entry }
    /\ pc = "confirm"
    /\ i = 1
    /\ \/ prev = NoRow /\ nxt = NoRow
       \/ \E o \in Prices, t \in FrameStamps(cfg) : \E r \in Rows([open |-> o, ts |-> t]) :
              /\ prev = Cells(r)
              /\ nxt \in Heads(1, t)
    /\ invocations = [confirmed |-> run_backtest_locals(cfg),
                      unconfirmed |-> run_backtest_locals(Unconfirmed(cfg))]
    /\ in_position = FALSE /\ side = NoSide
    /\ entry_price = None /\ entry_time = NoRow
    /\ tp_level = None /\ sl_level = None
    /\ sig_idx = None /\ entry_idx = None /\ entry_bar = NoRow
    /\ results = <<>> /\ equity = 0
    /\ daily_pnl = [d \in Dates |-> 0]
    /\ loss_stopped_days = {} /\ stop_idx = [d \in Dates |-> None]
    /\ blocked = FALSE /\ opened = 0 /\ last = NoRow
    /\ call = NoRow /\ ret = NoRow
    /\ module_globals = NoRow /\ overlapped = FALSE
    /\ output = NoRow /\ sim = NoRow /\ runner = NoRow

(* Row i of the frame: the runner whose loop index is i runs one          *)
(* iteration on it, the runner that entered on row i - 1 has stepped      *)
(* over it.                                                                *)
ConfirmBar ==
    /\ pc = "confirm" /\ nxt # NoRow
    /\ \E cur \in Rows(nxt), ind \in IndicatorsRead, nb \in Heads(i + 1, nxt.ts) :
        LET row == WithIndicators(cur, ind)
        IN  /\ invocations' =
                 [confirmed |->
                     IF invocations.confirmed.i = i
                     THEN run_backtest_on_df_step(cfg, invocations.confirmed, prev, row, nb)
                     ELSE invocations.confirmed,
                  unconfirmed |->
                     IF invocations.unconfirmed.i = i
                     THEN run_backtest_on_df_step(Unconfirmed(cfg), invocations.unconfirmed,
                                                  prev, row, nb)
                     ELSE invocations.unconfirmed]
            /\ prev' = Cells(cur)
            /\ nxt' = nb
            /\ i' = i + 1
    /\ UNCHANGED <<cfg, pc, posvars, ledgervars, blocked, opened, last, output,
                   resolvervars, module_globals, overlapped, sim, runner>>

(* i >= len(df) in both loops *)
ConfirmEnd ==
    /\ pc = "confirm" /\ nxt = NoRow
    /\ pc' = "confirmed"
    /\ UNCHANGED <<cfg, i, prev, nxt, posvars, ledgervars, blocked, opened, last, output,
                   resolvervars, globalvars, sim, runner>>

NextConfirm == ConfirmBar \/ ConfirmEnd

SpecConfirm == InitConfirm /\ [][NextConfirm]_vars

(* C38: the confirmation at entry never discards a signal: on every frame *)
(* the ledger of the run with confirm_trend_at_entry = true equals, row   *)
(* for row, the ledger of the run with it = false.                         *)
C38_ConfirmNeverDiscards ==
    pc \in {"confirm", "confirmed"} =>
        invocations.confirmed.results = invocations.unconfirmed.results

C38_Witness ==
    /\ pc = "confirmed"
    /\ Len(invocations.confirmed.results) = 1
    /\ invocations.confirmed.in_position
    /\ invocations.confirmed.side # invocations.confirmed.results[1].side


(* ---------- BacktestRunner.execute over the symbols of a run ---------- *)

(* A symbol is the pair of what parse_option_symbol splits it into: the    *)
(* text before the PE/CE suffix and the suffix, "None" when the pattern    *)
(* does not match.                                                         *)
ExecuteSymbols ==
    { [base |-> "NIFTY", option_type |-> "None"],
      [base |-> "NIFTY14OCT2525000", option_type |-> "CE"] }

is_option_symbol(symbol) == symbol.option_type \in {"PE", "CE"}

get_option_pair(symbol) ==
    << [symbol EXCEPT !.option_type = "PE"], [symbol EXCEPT !.option_type = "CE"] >>

(* execute, lines 255-263 *)
symbols_to_test(symbol, option_selection) ==
    IF is_option_symbol(symbol)
    THEN IF option_selection = "pe" THEN << get_option_pair(symbol)[1] >>
         ELSE IF option_selection = "ce" THEN << get_option_pair(symbol)[2] >>
         ELSE get_option_pair(symbol)
    ELSE << symbol >>

(* pd.concat(all_trades, ignore_index=True) *)
RECURSIVE concat(_)
concat(frames) ==
    IF frames = <<>> THEN <<>> ELSE frames[1] \o concat(Tail(frames))

(* sort_values("entry_time"): the default sort is not stable, so every    *)
(* order of the rows that is ascending in entry_time is a possible result. *)
sort_values_entry_time(trades) ==
    LET n == Len(trades)
        orders == { p \in [1..n -> 1..n] :
                      /\ \A a, b \in 1..n : a # b => p[a] # p[b]
                      /\ \A a \in 1..(n - 1) :
                            ~Later(trades[p[a]].entry_time, trades[p[a + 1]].entry_time) }
    IN  { [k \in 1..n |-> trades[p[k]]] : p \in orders }

(* execute, lines 277-297, for the combined ledger it sorted *)
execute_result(c, all_trades, combined) ==
    IF all_trades = <<>>
    THEN [trades |-> << >>, summary |-> NoRow, daily_stats |-> << >>,
          output_csv |-> NoRow, message |-> "No trades generated for any symbol."]
    ELSE [trades |-> combined,
          summary |-> runner_summarize_trades(c, combined),
          daily_stats |-> daily_breakdown(combined), output_csv |-> NoRow]

PairConfigs == { [CopyKeys EXCEPT !.starting_capital = 100] }

MaxExecuteBars == 4

(* Open and timestamp of the row at index idx of the frame of a symbol.   *)
ExecuteHeads(idx, after) ==
    IF idx >= MaxExecuteBars THEN {NoRow}
    ELSE {NoRow} \cup { [open |-> o, ts |-> t] :
                          <<o, t>> \in { x \in Prices \X CopyStamps : Later(x[2], after) } }

OptionSelections == {"both", "pe", "ce"}

(* A BacktestRunner built for a symbol, execute about to build            *)
(* symbols_to_test.                                                        *)
InitExecute ==
    /\ cfg \in { BacktestRunner_init(config) : config \in PairConfigs }
    /\ pc = "execute"
    /\ \E symbol \in ExecuteSymbols, option_selection \in OptionSelections :
          call = [symbol |-> symbol, option_selection |-> option_selection,
                  symbols_to_test |-> symbols_to_test(symbol, option_selection),
                  sym |-> NoRow, all_trades |-> <<>>]
    /\ invocations = [scan |-> run_backtest_locals(cfg)]
    /\ NoScan
    /\ ret = NoRow
    /\ module_globals = NoRow /\ overlapped = FALSE
    /\ sim = NoRow /\ runner = NoRow

(* for sym in symbols_to_test: the frame of sym is loaded and the loop of  *)
(* _run_backtest_on_df starts on it (lines 265-273, 189-195).  A frame of  *)
(* no row or one row gives no iteration.                                   *)
ExecuteLoad ==
    /\ pc = "execute" /\ call.symbols_to_test # <<>>
    /\ call' = [call EXCEPT !.sym = call.symbols_to_test[1],
                            !.symbols_to_test = Tail(@)]
    /\ invocations' = [scan |-> run_backtest_locals(cfg)]
    /\ \/ prev' = NoRow /\ nxt' = NoRow
       \/ \E o \in Prices, t \in CopyStamps : \E r \in Rows([open |-> o, ts |-> t]) :
              /\ prev' = Cells(r)
              /\ nxt' \in ExecuteHeads(1, t)
    /\ i' = 1
    /\ pc' = "loop"
    /\ UNCHANGED <<cfg, posvars, ledgervars, blocked, opened, last, output,
                   ret, module_globals, overlapped, sim, runner>>

(* one iteration of the loop on the frame of call.sym *)
ExecuteBar ==
    /\ pc = "loop" /\ nxt # NoRow
    /\ \E cur \in Rows(nxt), ind \in IndicatorsRead, nb \in ExecuteHeads(i + 1, nxt.ts) :
        /\ invocations' =
             [scan |-> IF invocations.scan.i = i
                       THEN run_backtest_on_df_step(cfg, invocations.scan, prev,
                                                    WithIndicators(cur, ind), nb)
                       ELSE invocations.scan]
        /\ prev' = Cells(cur)
        /\ nxt' = nb
        /\ i' = i + 1
    /\ UNCHANGED <<cfg, pc, posvars, ledgervars, blocked, opened, last, output,
                   resolvervars, module_globals, overlapped, sim, runner>>

(* the loop returns; trades["symbol"] = sym; all_trades.append(trades)     *)
(* unless the ledger is empty (lines 273-276)                              *)
ExecuteCollect ==
    /\ pc = "loop" /\ nxt = NoRow
    /\ call' = [call EXCEPT !.all_trades =
                   IF invocations.scan.results = <<>> THEN @
                   ELSE Append(@, tag_symbol(invocations.scan.results, call.sym))]
    /\ pc' = "execute"
    /\ UNCHANGED <<cfg, i, prev, nxt, posvars, ledgervars, blocked, opened, last, output,
                   ret, globalvars, sim, runner>>

(* after the last symbol: concat, sort, summarize, return (lines 278-297)  *)
ExecuteReturn ==
    /\ pc = "execute" /\ call.symbols_to_test = <<>>
    /\ \E combined \in sort_values_entry_time(concat(call.all_trades)) :
          output' = execute_result(cfg, call.all_trades, combined)
    /\ pc' = "returned"
    /\ UNCHANGED <<cfg, i, prev, nxt, posvars, ledgervars, blocked, opened, last,
                   resolvervars, globalvars, sim, runner>>

NextExecute == ExecuteLoad \/ ExecuteBar \/ ExecuteCollect \/ ExecuteReturn

SpecExecute == InitExecute /\ [][NextExecute]_vars

(* C39: in the ledger a run returned, the equity of every row is          *)
(* starting_capital plus the net P&L of the rows up to and including it,   *)
(* and the equity of the last row is the summary's final_equity.           *)
C39_EquityIsRunningTotal ==
    (pc = "returned" /\ output.summary # NoRow) =>
        /\ \A k \in 1..Len(output.trades) :
              output.trades[k].equity = cfg.starting_capital + cum(output.trades, k)
        /\ output.trades[Len(output.trades)].equity = output.summary.final_equity

(* The same for the runs of one symbol.                                    *)
OneSymbolEquityIsRunningTotal ==
    (pc = "returned" /\ output.summary # NoRow
        /\ Len(symbols_to_test(call.symbol, call.option_selection)) = 1) =>
        /\ \A k \in 1..Len(output.trades) :
              output.trades[k].equity = cfg.starting_capital + cum(output.trades, k)
        /\ output.trades[Len(output.trades)].equity = output.summary.final_equity
====
